---- MODULE Spec2Model ----
(***************************************************************************)
(* A model of the prediction post-processing and evaluation pipeline of    *)
(* meld_graph (src/meld_graph/evaluation.py).                              *)
(*                                                                         *)
(* Part 1: the prediction store (Evaluator.save_prediction and            *)
(* Evaluator.load_prediction on predictions<suffix>.hdf5).                 *)
(***************************************************************************)
EXTENDS Integers, Sequences, FiniteSets, TLC

\* ------------------------------------------------------------------ bounds
\* vertices of one hemisphere of the mesh (163842 on the real icosphere)
NVert == 4
\* distinct arrays a caller hands to save_prediction
NPayloads == 2
\* lock acquisitions by other processes on the shared store file
MaxContention == 1

\* ------------------------------------------------------------- the cohort
\* cohort.cortex_mask: the first vertex of each hemisphere is medial wall
CortexMask == [v \in 1..NVert |-> v > 1]

\* cohort.cortex_label: the indices of the cortex vertices, increasing
CortexLabel == [i \in 1..(NVert - 1) |-> i + 1]

\* nvert_hemi = len(self.experiment.cohort.cortex_label)
NvertHemi == Len(CortexLabel)

\* ------------------------------------------------------- the store's keys
Subjects == {"s1", "s2"}
Kinds == {"prediction", "prediction_clustered"}
Suffixes == {"", "_dropout"}
Hemis == <<"lh", "rh">>

\* the (suffix, subject, dataset_str) triples the callers save under
SaveKeys ==
    { <<"", "s1", "prediction">>, <<"", "s2", "prediction">>,
      <<"", "s1", "prediction_clustered">>, <<"_dropout", "s1", "prediction">> }

\* every triple a caller may ask load_prediction for
LoadKeys == Suffixes \X Subjects \X Kinds

\* an array of length len whose elements differ by position and by payload tag
Payload(t, len) == [i \in 1..len |-> t * (2 * NVert + 2) + i]

\* the lengths of the arrays handed to save_prediction: both hemispheres
\* cortex-masked, and both hemispheres at full length
PayloadLens == {2 * NvertHemi, 2 * NVert}

\* ------------------------------------------------------------------ state
VARIABLES
    h5,          \* suffix -> the file predictions<suffix>.hdf5
    otherLock,   \* the lock another process holds on one of the files
    contention,  \* lock acquisitions by other processes so far
    pc,          \* where the evaluator's process is inside save_prediction
    call,        \* the arguments and locals of the running save_prediction
    retried,     \* the running or last save_prediction had a failed open
    ret,         \* how the last call of the evaluator's process ended
    lastSaved,   \* history: key -> the array of the last completed save
    overwrote,   \* history: the last completed save replaced a different array
    clIn,        \* the arguments of a call of cluster_and_area_threshold
    clOut,       \* what that call returned
    ev,          \* the attributes of the Evaluator object
    dataDict,    \* self.data_dictionary
    csv,         \* the rows of results/test_results<suffix>.csv
    evret,       \* how the last call of an Evaluator method ended
    csvFile,     \* results/test_results.csv as the file system holds it
    writers,     \* the processes inside the save step of stat_subjects
    mc,          \* one Monte-Carlo dropout prediction of load_predict_data
    sal,         \* one call of calculate_saliency
    roc,         \* self.roc_dictionary and the subjects accumulated in it
    scen,        \* threshold_and_cluster and stat_subjects on one clean lesion
    sg,          \* one call of sigmoid
    suffixed,    \* the dropout attributes and the result files touched
    sampler,     \* an Oversampler over a data source, and one epoch of it
    gds,         \* a GraphDataset, and what get(idx) returned
    sigFile,     \* the sigmoid parameter files, their writer and their reader
    ctor         \* the arguments of Evaluator.__init__ and what it set

storeVars == <<h5, otherLock, contention, pc, call, retried, ret, lastSaved, overwrote>>
clusterVars == <<clIn, clOut>>
evalVars == <<ev, dataDict, csv, evret>>
dataVars == <<sampler, gds, sigFile, ctor>>
unitVars == <<csvFile, writers, mc, sal, roc, scen, sg, suffixed, dataVars>>
vars == <<storeVars, clusterVars, evalVars, unitVars>>

\* a file that does not exist
NoFile == [exists |-> FALSE, dsets |-> <<>>]

NoLock == [sfx |-> "", mode |-> "none"]

NoCall == [subject |-> "", kind |-> "", sfx |-> "", arr |-> <<>>, mode |-> ""]

NoRet == [op |-> "none", key |-> <<>>, status |-> "none", exc |-> "",
          found |-> FALSE, val |-> <<>>, arglen |-> 0]

\* the path f"{subject}/{hemi}/{dataset_str}" inside the file
DsetPath(subject, hemi, kind) == <<subject, hemi, kind>>

\* a slice that ignores the hemisphere index
HemiSliceFirst(arr, i) == SubSeq(arr, 1, NvertHemi)

\* prediction[i * nvert_hemi : (i + 1) * nvert_hemi], i counted from 0
HemiSlice(arr, i) == SubSeq(arr, i * NvertHemi + 1, (i + 1) * NvertHemi)

\* a write that keeps the data of a dataset that exists already
CreateOnly(file, path, data) ==
    [file EXCEPT !.dsets =
        [p \in (DOMAIN file.dsets) \cup {path} |->
            IF p \in DOMAIN file.dsets THEN file.dsets[p] ELSE data]]

\* f.require_dataset(path, ...) followed by dset[:] = data
RequireAndWrite(file, path, data) ==
    [file EXCEPT !.dsets =
        [p \in (DOMAIN file.dsets) \cup {path} |->
            IF p = path THEN data ELSE file.dsets[p]]]

\* h5py.File(filename, mode) succeeding: mode "a" creates a missing file
OpenForWrite(file, mode) ==
    IF mode = "a" /\ ~file.exists
    THEN [exists |-> TRUE, dsets |-> <<>>]
    ELSE file

\* another process holds a lock that makes an open for writing fail
WriteBlocked(sfx) == otherLock.mode # "none" /\ otherLock.sfx = sfx

\* another process holds a lock that makes an open for reading fail
ReadBlocked(sfx) == otherLock.mode = "w" /\ otherLock.sfx = sfx

\* an except branch that gives up instead of looping
GiveUpOnOpenError == "idle"

\* the except OSError branch of the retry loop: done = False, loop again
OnOpenError == "save_open"

\* no call of cluster_and_area_threshold made
NoClIn == [mask |-> <<>>, adj |-> {}, island_count |-> 0, min_area_threshold |-> 0,
           pc |-> "none"]

ClusterIdle == clIn = NoClIn /\ clOut = <<>>

\* a threshold attribute that was never assigned
NoThreshold == [kind |-> "none", value |-> 0, params |-> <<>>]

\* no Evaluator constructed
NoEvaluator ==
    [made |-> FALSE, thresh_and_clust |-> FALSE, has_min_area |-> FALSE,
     min_area_threshold |-> 0, has_threshold |-> FALSE, threshold |-> NoThreshold,
     init_done |-> FALSE, dropout_suffix |-> "", reported |-> ""]

NoEvRet == [op |-> "none", status |-> "none", exc |-> ""]

EvalIdle == ev = NoEvaluator /\ dataDict = <<>> /\ csv = <<>> /\ evret = NoEvRet

\* nothing called yet
NotCalled == [pc |-> "none"]

CsvIdle == csvFile = NotCalled /\ writers = <<>>
McIdle == mc = NotCalled
SalIdle == sal = NotCalled
RocIdle == roc = NotCalled
ScenIdle == scen = NotCalled
SgIdle == sg = NotCalled
SfxIdle == suffixed = NotCalled
SamplerIdle == sampler = NotCalled
GdsIdle == gds = NotCalled
SigFileIdle == sigFile = NotCalled
CtorIdle == ctor = NotCalled
DataIdle == SamplerIdle /\ GdsIdle /\ SigFileIdle /\ CtorIdle
UnitIdle ==
    CsvIdle /\ McIdle /\ SalIdle /\ RocIdle /\ ScenIdle /\ SgIdle /\ SfxIdle /\ DataIdle

StoreIdle ==
    /\ h5 = [s \in Suffixes |-> NoFile]
    /\ otherLock = NoLock
    /\ contention = 0
    /\ pc = "idle"
    /\ call = NoCall
    /\ retried = FALSE
    /\ ret = NoRet
    /\ lastSaved = [k \in LoadKeys |-> <<>>]
    /\ overwrote = FALSE

InitStore == StoreIdle /\ ClusterIdle /\ EvalIdle /\ UnitIdle

\* an assertion that lets longer arrays through
AtLeastExpectedLength(arr) == Len(arr) >= NvertHemi * 2

\* assert len(prediction) == nvert_hemi * 2
HasExpectedLength(arr) == Len(arr) = NvertHemi * 2

\* save_prediction up to the retry loop: the length assertion and the mode
SaveCall(key, arr) ==
    /\ pc = "idle"
    /\ IF HasExpectedLength(arr)
       THEN /\ pc' = "save_open"
            /\ call' = [subject |-> key[2], kind |-> key[3], sfx |-> key[1],
                        arr |-> arr,
                        mode |-> IF h5[key[1]].exists THEN "r+" ELSE "a"]
            /\ ret' = NoRet
       ELSE /\ pc' = "idle"
            /\ call' = NoCall
            /\ ret' = [NoRet EXCEPT !.op = "save", !.key = key,
                                    !.status = "raised", !.exc = "AssertionError",
                                    !.arglen = Len(arr)]
    /\ retried' = FALSE
    /\ UNCHANGED <<h5, otherLock, contention, lastSaved, overwrote>>

\* one pass of the retry loop in which h5py.File raises OSError
SaveOpenFail ==
    /\ pc = "save_open"
    /\ WriteBlocked(call.sfx)
    /\ pc' = OnOpenError
    /\ retried' = TRUE
    /\ IF pc' = "save_open"
       THEN UNCHANGED <<call, ret>>
       ELSE /\ call' = NoCall
            /\ ret' = [NoRet EXCEPT !.op = "save",
                                    !.key = <<call.sfx, call.subject, call.kind>>,
                                    !.status = "returned"]
    /\ UNCHANGED <<h5, otherLock, contention, lastSaved, overwrote>>

\* one pass of the retry loop in which h5py.File opens the file
SaveOpenOk ==
    /\ pc = "save_open"
    /\ ~WriteBlocked(call.sfx)
    /\ h5' = [h5 EXCEPT ![call.sfx] = OpenForWrite(@, call.mode)]
    /\ pc' = "save_lh"
    /\ UNCHANGED <<otherLock, contention, call, retried, ret, lastSaved, overwrote>>

\* the body of the for loop over ["lh", "rh"], one hemisphere per step
SaveWrite ==
    /\ pc \in {"save_lh", "save_rh"}
    /\ LET i == IF pc = "save_lh" THEN 0 ELSE 1
           key == <<call.sfx, call.subject, call.kind>>
       IN  /\ h5' = [h5 EXCEPT ![call.sfx] =
                        RequireAndWrite(@, DsetPath(call.subject, Hemis[i + 1], call.kind),
                                        HemiSlice(call.arr, i))]
           /\ IF i = 0
              THEN /\ pc' = "save_rh"
                   /\ UNCHANGED <<call, ret, lastSaved, overwrote>>
              ELSE /\ pc' = "idle"
                   /\ call' = NoCall
                   /\ ret' = [NoRet EXCEPT !.op = "save", !.key = key,
                                           !.status = "returned"]
                   /\ lastSaved' = [lastSaved EXCEPT ![key] = call.arr]
                   /\ overwrote' = (lastSaved[key] # <<>> /\ lastSaved[key] # call.arr)
    /\ UNCHANGED <<otherLock, contention, retried>>

\* f[f"{subject}/{hemi}/{dataset_str}"][:] for both hemispheres, concatenated
ReadBoth(file, subject, kind) ==
    file.dsets[DsetPath(subject, "lh", kind)] \o file.dsets[DsetPath(subject, "rh", kind)]

\* the lookup raises KeyError for the first hemisphere whose dataset is absent
HasBoth(file, subject, kind) ==
    /\ DsetPath(subject, "lh", kind) \in DOMAIN file.dsets
    /\ DsetPath(subject, "rh", kind) \in DOMAIN file.dsets

\* load_prediction
LoadPrediction(key) ==
    /\ pc = "idle"
    /\ LET file == h5[key[1]]
           base == [NoRet EXCEPT !.op = "load", !.key = key]
       IN  ret' =
             IF ~file.exists
             THEN [base EXCEPT !.status = "returned"]
             ELSE IF ReadBlocked(key[1])
             THEN [base EXCEPT !.status = "raised", !.exc = "OSError"]
             ELSE IF HasBoth(file, key[2], key[3])
             THEN [base EXCEPT !.status = "returned", !.found = TRUE,
                               !.val = ReadBoth(file, key[2], key[3])]
             ELSE [base EXCEPT !.status = "returned"]
    /\ UNCHANGED <<h5, otherLock, contention, pc, call, retried, lastSaved, overwrote>>

\* another process opens an existing store file, for reading or for writing
OtherOpen(sfx, mode) ==
    /\ otherLock.mode = "none"
    /\ contention < MaxContention
    /\ h5[sfx].exists
    /\ ~(pc \in {"save_lh", "save_rh"} /\ call.sfx = sfx)
    /\ otherLock' = [sfx |-> sfx, mode |-> mode]
    /\ contention' = contention + 1
    /\ UNCHANGED <<h5, pc, call, retried, ret, lastSaved, overwrote>>

\* the other process closes the file
OtherClose ==
    /\ otherLock.mode # "none"
    /\ otherLock' = NoLock
    /\ UNCHANGED <<h5, contention, pc, call, retried, ret, lastSaved, overwrote>>

StoreStep ==
    \/ \E key \in SaveKeys, t \in 1..NPayloads, len \in PayloadLens :
          SaveCall(key, Payload(t, len))
    \/ SaveOpenFail
    \/ SaveOpenOk
    \/ SaveWrite
    \/ \E key \in LoadKeys : LoadPrediction(key)
    \/ \E sfx \in Suffixes, mode \in {"r", "w"} : OtherOpen(sfx, mode)
    \/ OtherClose

NextStore == StoreStep /\ UNCHANGED <<clusterVars, evalVars, unitVars>>

SpecStore == InitStore /\ [][NextStore]_vars

\* the retry loop is always running, and other processes close what they opened
LiveStore ==
    /\ SpecStore
    /\ WF_storeVars(SaveOpenOk)
    /\ WF_storeVars(SaveWrite)
    /\ WF_storeVars(OtherClose)

\* ------------------------------------------------------ claims on the store

\* C1: once a save of arr under (suffix, subject, kind) has completed, a load
\* of that key that returns gives back lh||rh equal to arr, element for
\* element, whatever was saved under other keys before or after.
C1_RoundTrip ==
    (ret.op = "load" /\ ret.status = "returned" /\ lastSaved[ret.key] # <<>>)
        => /\ ret.found
           /\ Len(ret.val) = Len(lastSaved[ret.key])
           /\ \A j \in 1..Len(ret.val) : ret.val[j] = lastSaved[ret.key][j]

\* C1 witness: a load of a saved key returned while two other keys of the same
\* file and a key of the other file hold different arrays.
C1_Witness ==
    /\ ret.op = "load" /\ ret.found
    /\ ret.key = <<"", "s1", "prediction">>
    /\ ret.val = Payload(1, 2 * NvertHemi)
    /\ lastSaved[<<"", "s2", "prediction">>] = Payload(2, 2 * NvertHemi)
    /\ lastSaved[<<"", "s1", "prediction_clustered">>] = Payload(2, 2 * NvertHemi)
    /\ lastSaved[<<"_dropout", "s1", "prediction">>] = Payload(2, 2 * NvertHemi)

\* the dataset paths a file holds after the completed saves recorded in lastSaved
SavedPaths(sfx) ==
    { DsetPath(k[2], Hemis[h], k[3]) :
        k \in {x \in LoadKeys : x[1] = sfx /\ lastSaved[x] # <<>>}, h \in 1..2 }

\* C2: whenever no save is running, each file holds exactly the lh and rh
\* dataset of every key saved so far and nothing else, each holding its half
\* of the most recently saved array (a re-save adds no key and replaces the data).
C2_OverwriteInPlace ==
    pc = "idle" =>
        \A sfx \in Suffixes :
            /\ DOMAIN h5[sfx].dsets = SavedPaths(sfx)
            /\ Cardinality(DOMAIN h5[sfx].dsets)
                 = 2 * Cardinality({x \in LoadKeys : x[1] = sfx /\ lastSaved[x] # <<>>})
            /\ \A k \in {x \in LoadKeys : x[1] = sfx /\ lastSaved[x] # <<>>} :
                 \A j \in 1..NvertHemi :
                    /\ h5[sfx].dsets[DsetPath(k[2], "lh", k[3])][j] = lastSaved[k][j]
                    /\ h5[sfx].dsets[DsetPath(k[2], "rh", k[3])][j]
                         = lastSaved[k][NvertHemi + j]

\* C2 witness: a completed save replaced a different array under its key.
C2_Witness ==
    /\ pc = "idle" /\ overwrote
    /\ ret.op = "save" /\ ret.status = "returned"

\* C3 as claimed: a load of a key that is absent (no file, no subject, or the
\* kind missing for a hemisphere) returns not-found and never raises.
C3_AbsentKeyNeverRaises ==
    (ret.op = "load"
        /\ (~h5[ret.key[1]].exists \/ ~HasBoth(h5[ret.key[1]], ret.key[2], ret.key[3])))
        => (ret.status = "returned" /\ ~ret.found)

\* C4 as claimed: every per-hemisphere dataset in the store has the full
\* (unmasked) per-hemisphere vertex count.
C4_FullLengthDatasets ==
    \A sfx \in Suffixes : \A p \in DOMAIN h5[sfx].dsets :
        Len(h5[sfx].dsets[p]) = NVert

\* C4 amended: every per-hemisphere dataset has the cortex-masked length
\* len(cortex_label); a save is accepted only with exactly twice that length,
\* and any other length raises AssertionError with the store unchanged and no
\* file opened.
C4_MaskedLengthDatasets ==
    /\ [](\A sfx \in Suffixes : \A p \in DOMAIN h5[sfx].dsets :
            Len(h5[sfx].dsets[p]) = Cardinality({v \in 1..NVert : CortexMask[v]}))
    /\ [](pc # "idle" => Len(call.arr) = 2 * Cardinality({v \in 1..NVert : CortexMask[v]}))
    /\ []((ret.op = "save" /\ ret.exc = "AssertionError")
            => ret.arglen # 2 * Cardinality({v \in 1..NVert : CortexMask[v]}))
    /\ [][(ret'.op = "save" /\ ret'.exc = "AssertionError" /\ ret' # ret)
            => (h5' = h5 /\ pc' = "idle")]_vars

\* C4 witness: one array was stored and a later one of another length rejected.
C4_Witness ==
    /\ ret.op = "save" /\ ret.exc = "AssertionError"
    /\ \E sfx \in Suffixes : DOMAIN h5[sfx].dsets # {}

\* the stored halves of the running save's key equal the halves of arr
CallWritten(key, arr) ==
    /\ HasBoth(h5[key[1]], key[2], key[3])
    /\ ReadBoth(h5[key[1]], key[2], key[3]) = arr

\* C5: under contention that clears, a save that reached the retry loop
\* eventually returns; it returns only with both the lh and the rh dataset of
\* its subject and kind written, and a failed open changes nothing in the store.
C5_RetryUntilWritten ==
    /\ (pc = "save_open") ~> (pc = "idle" /\ ret.op = "save" /\ ret.status = "returned")
    /\ [][(pc # "idle" /\ pc' = "idle")
            => /\ ret'.op = "save" /\ ret'.status = "returned"
               /\ ret'.key = <<call.sfx, call.subject, call.kind>>
               /\ HasBoth(h5'[call.sfx], call.subject, call.kind)
               /\ ReadBoth(h5'[call.sfx], call.subject, call.kind) = call.arr]_vars
    /\ [][(pc = "save_open" /\ pc' # "save_lh") => h5' = h5]_vars

\* C5 witness: a save returned after at least one failed open.
C5_Witness ==
    /\ pc = "idle" /\ retried
    /\ ret.op = "save" /\ ret.status = "returned"
    /\ CallWritten(ret.key, lastSaved[ret.key])

(***************************************************************************)
(* Part 2: Evaluator.cluster_and_area_threshold.                           *)
(***************************************************************************)

\* the minimum areas tried (the default of the method is 0, of the class 100)
MinAreas == {0, 2, 3}

\* the running island counts a caller passes in
IslandCountsIn == {0, 2}

\* the undirected edges over n vertices; a set of them is a symmetric adj_mat
AllEdges(n) == {{u, v} : u \in 1..n, v \in 1..n} \ {{u} : u \in 1..n}

\* a vector held element by element, as numpy holds an array
Array(f) == SubSeq(f, 1, Len(f))

\* the indices at which a boolean vector is True, increasing
TrueIdx(mask) ==
    LET S == {v \in 1..Len(mask) : mask[v]}
    IN  Array([i \in 1..Cardinality(S) |->
                  CHOOSE v \in S : Cardinality({w \in S : w < v}) = i - 1])

\* adj_mat[mask][:, mask]: the entries between the mask-true vertices,
\* re-indexed by their rank among them
SubMatrix(adj, mask) ==
    LET idx == TrueIdx(mask)
    IN  {<<i, j>> \in (1..Len(idx)) \X (1..Len(idx)) : {idx[i], idx[j]} \in adj}

RECURSIVE Grow(_, _)
\* the nodes reachable from S along the entries E, in either direction
Grow(S, E) ==
    LET T == S \cup {e[2] : e \in {x \in E : x[1] \in S}}
                \cup {e[1] : e \in {x \in E : x[2] \in S}}
    IN  IF T = S THEN S ELSE Grow(T, E)

RECURSIVE LabelNodes(_, _, _, _, _)
\* the traversal of connected_components: nodes in index order, each node not
\* yet labelled starts the next component
LabelNodes(node, m, E, labels, n_comp) ==
    IF node > m THEN [n_comp |-> n_comp, labels |-> labels]
    ELSE IF labels[node] # 0 - 1
         THEN LabelNodes(node + 1, m, E, labels, n_comp)
         ELSE LET comp == Grow({node}, E)
              IN  LabelNodes(node + 1, m, E,
                             Array([i \in 1..m |-> IF i \in comp THEN n_comp ELSE labels[i]]),
                             n_comp + 1)

\* scipy.sparse.csgraph.connected_components: (n_comp, labels), labels from 0
ConnectedComponents(m, E) ==
    LabelNodes(1, m, E, Array([i \in 1..m |-> 0 - 1]), 0)

\* a size test that drops islands of exactly the minimum area
SurvivesStrict(size, min_area_threshold) == size > min_area_threshold

\* if size >= min_area_threshold
Survives(size, min_area_threshold) == size >= min_area_threshold

RECURSIVE StampIslands(_, _, _, _, _, _, _)
\* the for loop over island_index
StampIslands(island_index, cc, mask, idx, islands, island_count, min_area_threshold) ==
    IF island_index >= cc.n_comp THEN islands
    ELSE LET include_vec == Array([i \in 1..Len(idx) |-> cc.labels[i] = island_index])
             size == Cardinality({i \in 1..Len(idx) : include_vec[i]})
         IN  IF Survives(size, min_area_threshold)
             THEN LET island_mask ==
                          [v \in 1..Len(mask) |->
                              mask[v] /\ \E i \in 1..Len(idx) : idx[i] = v /\ include_vec[i]]
                  IN  StampIslands(island_index + 1, cc, mask, idx,
                                   Array([v \in 1..Len(mask) |->
                                       IF island_mask[v] THEN island_count + 1 ELSE islands[v]]),
                                   island_count + 1, min_area_threshold)
             ELSE StampIslands(island_index + 1, cc, mask, idx, islands, island_count,
                               min_area_threshold)

\* cluster_and_area_threshold(mask, island_count, min_area_threshold) on adj_mat
ClusterAndAreaThreshold(adj, mask, island_count, min_area_threshold) ==
    LET idx == TrueIdx(mask)
        cc == ConnectedComponents(Len(idx), SubMatrix(adj, mask))
    IN  StampIslands(0, cc, mask, idx, Array([v \in 1..Len(mask) |-> 0]), island_count,
                     min_area_threshold)

\* the inputs of one call, drawn from every mask and every symmetric adjacency
InitCluster ==
    /\ StoreIdle /\ EvalIdle /\ UnitIdle
    /\ clIn \in [mask : [1..NVert -> BOOLEAN], adj : SUBSET AllEdges(NVert),
                 island_count : IslandCountsIn, min_area_threshold : MinAreas,
                 pc : {"called"}]
    /\ clOut = <<>>

ClusterCall ==
    /\ clIn.pc = "called"
    /\ clOut' = ClusterAndAreaThreshold(clIn.adj, clIn.mask, clIn.island_count,
                                        clIn.min_area_threshold)
    /\ clIn' = [clIn EXCEPT !.pc = "returned"]
    /\ UNCHANGED <<storeVars, evalVars, unitVars>>

NextCluster == ClusterCall

SpecCluster == InitCluster /\ [][NextCluster]_vars

\* the subsets of the mask-true vertices that no edge of adj leaves
ClosedSets(adj, mask) ==
    {T \in SUBSET {v \in 1..Len(mask) : mask[v]} :
        \A u \in T : \A w \in 1..Len(mask) : (mask[w] /\ {u, w} \in adj) => w \in T}

\* the connected component of v in the subgraph induced by the mask: the
\* vertices that every closed set holding v holds
ComponentOf(adj, mask, v) ==
    LET closed == ClosedSets(adj, mask)
    IN  {w \in 1..Len(mask) : mask[w] /\ \A T \in closed : v \in T => w \in T}

MaxCsvRows == 1

\* self.subject_ids, in the order of the dataset
EvalSubjectIds == <<"s1">>

\* torch.nan, outside the values of every array of the model
NaN == 0 - 1

\* the lesion probabilities the network puts out, in quarters
PredLevels == {0, 2}

\* the scalar thresholds a caller passes, in quarters
FloatThresholds == {0, 1}

\* the rows (ymin, ymax, k, m) of the sigmoid parameter file, ymin and ymax in
\* quarters, m in units of distance
SigmoidParams == {<<1, 3, 1, 1>>, <<1, 3, 0, 1>>}

\* the min_area_threshold arguments of the constructor (100 by default)
MinAreaArgs == {1, 2}

\* cohort.adj_mat: the mesh of one hemisphere, a connected chain of vertices
MeshAdj == {{v, v + 1} : v \in 1..(NVert - 1)}

\* the per-hemisphere label vectors of the dataset: no lesion, or one vertex
HemiLabels ==
    {[v \in 1..NVert |-> 0]} \cup {[v \in 1..NVert |-> IF v = w THEN 1 ELSE 0] : w \in 1..NVert}

\* the per-hemisphere outputs of the distance-regression head: the NaN fill of
\* a model without that head, or a map that comes within distance 1 of a lesion
HemiDistances ==
    { [v \in 1..NVert |-> NaN], [v \in 1..NVert |-> IF v = NVert THEN 1 ELSE 3] }

\* array[self.cohort.cortex_mask] on one hemisphere
CortexOnly(arr) == Array([i \in 1..NvertHemi |-> arr[CortexLabel[i]]])

\* cohort.split_hemispheres: a cortex-masked lh||rh array back to two full
\* overlays, zero on the medial wall
SplitHemispheres(arr) ==
    [h \in {"left", "right"} |->
        Array([v \in 1..NVert |->
                  IF CortexMask[v]
                  THEN arr[(IF h = "left" THEN 0 ELSE NvertHemi)
                           + (CHOOSE i \in 1..NvertHemi : CortexLabel[i] = v)]
                  ELSE 0])]

\* np.min, np.max: a NaN element makes the result NaN
ArrMin(arr) ==
    IF \E i \in 1..Len(arr) : arr[i] = NaN THEN NaN
    ELSE CHOOSE x \in {arr[i] : i \in 1..Len(arr)} : \A i \in 1..Len(arr) : x <= arr[i]

ArrMax(arr) ==
    CHOOSE x \in {arr[i] : i \in 1..Len(arr)} : \A i \in 1..Len(arr) : x >= arr[i]

\* a >= b on floats: False as soon as one side is NaN
Geq(a, b) == a # NaN /\ b # NaN /\ a >= b

\* sigmoid(x, k, m, ymin, ymax) for one element x and k in {0, 1}; for k = 1
\* 1 / (1 + (1 / (x / xmax + eps) - 1) ** -1) is 1 - x / xmax - eps, and eps is
\* below the resolution of the model's values
Sigmoid(x, k, m, ymin, ymax) ==
    LET xmax == m * 2
    IN  IF k = 0 THEN ymin
        ELSE IF x = NaN THEN NaN
        ELSE LET scaled_res == ((xmax - x) * (ymax - ymin)) \div xmax + ymin
                 clipped == IF x > xmax THEN ymin ELSE scaled_res
             IN  IF clipped > ymax THEN ymax ELSE clipped

\* Evaluator.__init__ up to the threshold: what it assigns and what it prints
InitThreshold(tc, thr, file, params, min_area) ==
    LET base == [NoEvaluator EXCEPT !.made = TRUE, !.thresh_and_clust = tc]
        area == [base EXCEPT !.has_min_area = TRUE, !.min_area_threshold = min_area]
    IN  IF ~tc THEN [base EXCEPT !.init_done = TRUE]
        ELSE IF thr.kind = "sigmoid"
        THEN IF file = "ok"
             THEN [area EXCEPT !.has_threshold = TRUE,
                               !.threshold = [kind |-> "sigmoid", value |-> 0,
                                              params |-> params],
                               !.init_done = TRUE]
             ELSE IF file = "unreadable"
             THEN [area EXCEPT !.reported = "problem reading sigmoid parameters",
                               !.init_done = TRUE]
             ELSE [area EXCEPT !.reported = "Could not find an optimised sigmoid"]
        ELSE IF thr.kind = "float"
        THEN [area EXCEPT !.has_threshold = TRUE,
                          !.threshold = [kind |-> "float", value |-> thr.value,
                                         params |-> <<>>],
                          !.init_done = TRUE]
        ELSE [area EXCEPT !.reported = "Cannot understand the threshold provided"]

\* the threshold arguments: 'sigmoid', a float, or anything else
ThresholdArgs ==
    {[kind |-> "sigmoid", value |-> 0], [kind |-> "other", value |-> 0]}
        \cup {[kind |-> "float", value |-> t] : t \in FloatThresholds}

\* Evaluator(experiment, thresh_and_clust=tc, threshold=thr, min_area_threshold=..)
Construct(tc, thr, file, params, min_area) ==
    /\ ~ev.made
    /\ ev' = InitThreshold(tc, thr, file, params, min_area)
    /\ evret' = [op |-> "__init__", status |-> "returned", exc |-> ""]
    /\ UNCHANGED <<dataDict, csv, storeVars, clusterVars, unitVars>>

\* one completed save_prediction on a file no other process holds
SaveBoth(file, subject, arr, kind) ==
    LET opened == OpenForWrite(file, IF file.exists THEN "r+" ELSE "a")
        lh == RequireAndWrite(opened, DsetPath(subject, "lh", kind), HemiSlice(arr, 0))
    IN  RequireAndWrite(lh, DsetPath(subject, "rh", kind), HemiSlice(arr, 1))

RECURSIVE SavePredictions(_, _, _)
\* the two save_prediction calls of load_predict_data, subject after subject
SavePredictions(file, n, dict) ==
    IF n = 0 THEN file
    ELSE LET subj == EvalSubjectIds[n]
             before == SavePredictions(file, n - 1, dict)
         IN  SaveBoth(SaveBoth(before, subj, dict[subj].result, "prediction"),
                      subj, dict[subj].distance_map, "distance_map")

\* the subject_dictionary built once the right hemisphere has been predicted
SubjectDictionary(pl, pr, ll, lr, dl, dr) ==
    [input_labels |-> CortexOnly(ll) \o CortexOnly(lr),
     result |-> CortexOnly(pl) \o CortexOnly(pr),
     distance_map |-> CortexOnly(dl) \o CortexOnly(dr),
     has_clustered |-> FALSE,
     cluster_thresholded |-> <<>>]

\* what the model and the dataset may yield for one subject
SubjectInputs ==
    { SubjectDictionary(pl, pr, ll, lr, d, d) :
        pl \in [1..NVert -> PredLevels], pr \in [1..NVert -> PredLevels],
        ll \in HemiLabels, lr \in {[v \in 1..NVert |-> 0]}, d \in HemiDistances }

\* load_predict_data, called as evaluate() calls it (data_dictionary is None)
LoadPredictData ==
    /\ ev.made
    /\ dataDict = <<>>
    /\ IF ~ev.init_done
       THEN /\ evret' = [op |-> "load_predict_data", status |-> "raised",
                         exc |-> "AttributeError"]
            /\ UNCHANGED <<dataDict, h5>>
       ELSE \E dict \in [{EvalSubjectIds[n] : n \in 1..Len(EvalSubjectIds)} -> SubjectInputs] :
              /\ dataDict' = dict
              /\ h5' = [h5 EXCEPT ![ev.dropout_suffix] =
                            SavePredictions(@, Len(EvalSubjectIds), dict)]
              /\ evret' = [op |-> "load_predict_data", status |-> "raised",
                           exc |-> "AttributeError"]
    /\ UNCHANGED <<ev, csv, otherLock, contention, pc, call, retried, ret, lastSaved,
                   overwrote, clusterVars, unitVars>>

\* a caller that restarts the numbering on each hemisphere
RestartIslandCount(island_count, islands) == 0

\* island_count += np.max(islands)
NextIslandCount(island_count, islands) == island_count + ArrMax(islands)

\* threshold_subj: the sigmoid of the subject's smallest predicted distance when
\* self.threshold is the parameter array, self.threshold itself otherwise
ThresholdSubj(threshold, data) ==
    IF threshold.kind = "sigmoid"
    THEN Sigmoid(ArrMin(data.distance_map), threshold.params[3], threshold.params[4],
                 threshold.params[1], threshold.params[2])
    ELSE threshold.value

\* mask = predictions[hemi] >= threshold_subj
HemiMask(predictions, hemi, threshold_subj) ==
    Array([v \in 1..NVert |-> Geq(predictions[hemi][v], threshold_subj)])

\* the loop over ["left", "right"] with the island count carried along
ResultHemisClustered(data, threshold, min_area_threshold) ==
    LET threshold_subj == ThresholdSubj(threshold, data)
        predictions == SplitHemispheres(data.result)
        left == ClusterAndAreaThreshold(MeshAdj, HemiMask(predictions, "left", threshold_subj),
                                        0, min_area_threshold)
        right == ClusterAndAreaThreshold(MeshAdj, HemiMask(predictions, "right", threshold_subj),
                                         NextIslandCount(0, left), min_area_threshold)
    IN  [left |-> left, right |-> right]

\* a clustering that adds its ids onto the cluster_thresholded already there
AccumulateClustered(data, threshold, min_area_threshold) ==
    LET hemis == ResultHemisClustered(data, threshold, min_area_threshold)
        new == CortexOnly(hemis.left) \o CortexOnly(hemis.right)
    IN  IF data.has_clustered
        THEN Array([i \in 1..Len(new) |-> new[i] + data.cluster_thresholded[i]])
        ELSE new

\* data["cluster_thresholded"] = np.hstack([left[cortex_mask], right[cortex_mask]])
ClusterThresholded(data, threshold, min_area_threshold) ==
    LET hemis == ResultHemisClustered(data, threshold, min_area_threshold)
    IN  CortexOnly(hemis.left) \o CortexOnly(hemis.right)

RECURSIVE SaveClustered(_, _, _)
\* the save_prediction call that ends the body of the loop over the subjects
SaveClustered(file, n, dict) ==
    IF n = 0 THEN file
    ELSE SaveBoth(SaveClustered(file, n - 1, dict), EvalSubjectIds[n],
                  dict[EvalSubjectIds[n]].cluster_thresholded, "prediction_clustered")

\* threshold_and_cluster() on self.data_dictionary
ThresholdAndCluster ==
    /\ ev.made
    /\ IF ~ev.init_done \/ dataDict = <<>> \/ ~ev.has_threshold
       THEN /\ evret' = [op |-> "threshold_and_cluster", status |-> "raised",
                         exc |-> "AttributeError"]
            /\ UNCHANGED <<dataDict, h5>>
       ELSE LET dict == [s \in DOMAIN dataDict |->
                            [dataDict[s] EXCEPT
                                !.has_clustered = TRUE,
                                !.cluster_thresholded =
                                    ClusterThresholded(dataDict[s], ev.threshold,
                                                       ev.min_area_threshold)]]
            IN  /\ dataDict' = dict
                /\ h5' = [h5 EXCEPT ![ev.dropout_suffix] =
                              SaveClustered(@, Len(EvalSubjectIds), dict)]
                /\ evret' = [op |-> "threshold_and_cluster", status |-> "returned",
                             exc |-> ""]
    /\ UNCHANGED <<ev, csv, otherLock, contention, pc, call, retried, ret, lastSaved,
                   overwrote, clusterVars, unitVars>>

\* np.unique
Unique(arr) == {arr[i] : i \in 1..Len(arr)}

\* prediction[labels]: labels is an integer array, so each of its elements is
\* taken as a (0-based) position in prediction
IndexedBy(prediction, labels) ==
    Array([i \in 1..Len(labels) |-> prediction[labels[i] + 1]])

\* len(difference) after difference = difference[difference > 0]
NClusters(prediction, labels) ==
    Cardinality({c \in Unique(prediction) \ Unique(IndexedBy(prediction, labels)) : c > 0})

\* meld_graph.training.tp_fp_fn_tn(mask, label) on two 0/1 vectors: the sizes of
\* the four cells of the confusion table
TpFpFnTn(mask, label) ==
    LET Count(m, l) == Cardinality({i \in 1..Len(mask) : mask[i] = m /\ label[i] = l})
    IN  [TP |-> Count(1, 1), FP |-> Count(1, 0), FN |-> Count(0, 1), TN |-> Count(0, 0)]

\* meld_graph.training.dice_coeff on the one-hot prediction: per class c the
\* pair (2 |pred = c and label = c|, |pred = c| + |label = c|), the dice being
\* the quotient of the two
DiceCoeff(mask, label) ==
    [c \in {0, 1} |->
        <<2 * Cardinality({i \in 1..Len(mask) : mask[i] = c /\ label[i] = c}),
          Cardinality({i \in 1..Len(mask) : mask[i] = c})
              + Cardinality({i \in 1..Len(mask) : label[i] = c})>>]

\* the row of one subject: ID, group, detected, number clusters, tp, fp, fn, tn,
\* dice lesional, dice non-lesional
SubDf(subject, data) ==
    LET prediction == data.cluster_thresholded
        labels == data.input_labels
        mask == Array([i \in 1..Len(prediction) |-> IF prediction[i] > 0 THEN 1 ELSE 0])
        label == Array([i \in 1..Len(labels) |-> IF labels[i] # 0 THEN 1 ELSE 0])
        patient_dice_vars == TpFpFnTn(mask, label)
        dices == DiceCoeff(mask, label)
    IN  [ID |-> subject,
         group |-> \E i \in 1..Len(labels) : labels[i] # 0,
         detected |-> \E i \in 1..Len(labels) : prediction[i] > 0 /\ labels[i] # 0,
         number_clusters |-> NClusters(prediction, labels),
         tp |-> patient_dice_vars.TP, fp |-> patient_dice_vars.FP,
         fn |-> patient_dice_vars.FN, tn |-> patient_dice_vars.TN,
         dice_lesional |-> dices[1], dice_non_lesional |-> dices[0]]

RECURSIVE StatRows(_, _)
\* the rows appended to test_results.csv by the loop over the subjects
StatRows(n, dict) ==
    IF n = 0 THEN <<>>
    ELSE Append(StatRows(n - 1, dict), SubDf(EvalSubjectIds[n], dict[EvalSubjectIds[n]]))

\* stat_subjects()
StatSubjects ==
    /\ ev.made
    /\ Len(csv) + Len(EvalSubjectIds) <= MaxCsvRows
    /\ IF ~ev.init_done \/ dataDict = <<>>
       THEN /\ evret' = [op |-> "stat_subjects", status |-> "raised",
                         exc |-> "AttributeError"]
            /\ UNCHANGED csv
       ELSE IF ~dataDict[EvalSubjectIds[1]].has_clustered
       THEN /\ evret' = [op |-> "stat_subjects", status |-> "raised", exc |-> "KeyError"]
            /\ UNCHANGED csv
       ELSE /\ csv' = csv \o StatRows(Len(EvalSubjectIds), dataDict)
            /\ evret' = [op |-> "stat_subjects", status |-> "returned", exc |-> ""]
    /\ UNCHANGED <<ev, dataDict, storeVars, clusterVars, unitVars>>

InitEval == StoreIdle /\ ClusterIdle /\ EvalIdle /\ UnitIdle

NextEval ==
    \/ \E tc \in BOOLEAN, thr \in ThresholdArgs, file \in {"ok", "unreadable", "missing"},
          params \in SigmoidParams, min_area \in MinAreaArgs :
          Construct(tc, thr, file, params, min_area)
    \/ LoadPredictData
    \/ ThresholdAndCluster
    \/ StatSubjects

SpecEval == InitEval /\ [][NextEval]_vars

\* the components of the mesh under a mask that reach the minimum area
SurvivingComponents(mask, min_area_threshold) ==
    LET closed == ClosedSets(MeshAdj, mask)
        comps == {{w \in 1..NVert : mask[w] /\ \A T \in closed : v \in T => w \in T} :
                     v \in {u \in 1..NVert : mask[u]}}
    IN  {c \in comps : Cardinality(c) >= min_area_threshold}

\* the nonzero ids on positions first..last of a clustered prediction
IdsIn(arr, first, last) == {arr[i] : i \in first..last} \ {0}

\* C7: for every subject that threshold_and_cluster has processed, with nL
\* surviving islands on the left hemisphere and nR on the right, the nonzero
\* ids of the left half of cluster_thresholded are exactly 1..nL and those of
\* the right half exactly nL+1..nL+nR.
C7_DenseIdsAcrossHemispheres ==
    \A s \in DOMAIN dataDict :
        dataDict[s].has_clustered =>
            LET data == dataDict[s]
                thr == ThresholdSubj(ev.threshold, data)
                predictions == SplitHemispheres(data.result)
                nL == Cardinality(SurvivingComponents(
                          HemiMask(predictions, "left", thr), ev.min_area_threshold))
                nR == Cardinality(SurvivingComponents(
                          HemiMask(predictions, "right", thr), ev.min_area_threshold))
            IN  /\ IdsIn(data.cluster_thresholded, 1, NvertHemi) = 1..nL
                /\ IdsIn(data.cluster_thresholded, NvertHemi + 1, 2 * NvertHemi)
                       = (nL + 1)..(nL + nR)

\* C7 witness: a clustered subject with two islands on the left hemisphere and
\* at least one on the right.
C7_Witness ==
    \E s \in DOMAIN dataDict :
        /\ dataDict[s].has_clustered
        /\ Cardinality(IdsIn(dataDict[s].cluster_thresholded, 1, NvertHemi)) >= 2
        /\ IdsIn(dataDict[s].cluster_thresholded, NvertHemi + 1, 2 * NvertHemi) # {}

\* C8: in sigmoid mode, a subject whose distance map is the NaN fill makes
\* threshold_and_cluster raise, and no prediction_clustered array of that
\* subject is kept or persisted.
C8_FailsLoudlyWithoutDistanceMap ==
    \A s \in DOMAIN dataDict :
        (/\ ev.has_threshold
         /\ ev.threshold.kind = "sigmoid"
         /\ \E i \in 1..Len(dataDict[s].distance_map) : dataDict[s].distance_map[i] = NaN)
        => /\ ~dataDict[s].has_clustered
           /\ ~HasBoth(h5[ev.dropout_suffix], s, "prediction_clustered")
           /\ evret.op = "threshold_and_cluster" => evret.status = "raised"

\* C9: an evaluator built with thresh_and_clust whose threshold could not be
\* set (unrecognised value, sigmoid file missing or unreadable) never gets a
\* data dictionary, a prediction file or a results row.
C9_ConfigErrorsAbort ==
    (ev.made /\ ev.thresh_and_clust /\ ~ev.has_threshold) =>
        /\ dataDict = <<>>
        /\ \A sfx \in Suffixes : ~h5[sfx].exists
        /\ csv = <<>>

\* the positive cluster ids that overlap no vertex with a positive label
FalsePositiveClusters(prediction, labels) ==
    {c \in Unique(prediction) :
        c > 0 /\ ~\E i \in 1..Len(prediction) : prediction[i] = c /\ labels[i] # 0}

\* C10: the 'number clusters' of every row of the results file is the number
\* of distinct positive cluster ids of the subject's clustered prediction that
\* overlap no positively labelled vertex.
C10_NumberClustersIsFalsePositives ==
    \A r \in 1..Len(csv) :
        csv[r].number_clusters =
            Cardinality(FalsePositiveClusters(dataDict[csv[r].ID].cluster_thresholded,
                                              dataDict[csv[r].ID].input_labels))

\* C11: the confusion counts are computed for patients only: in the row of
\* every control (a subject without a positive label vertex) tp, fp, fn and tn
\* are all zero, whatever was predicted.
C11_ControlsHaveZeroCounts ==
    \A r \in 1..Len(csv) :
        ~csv[r].group =>
            csv[r].tp = 0 /\ csv[r].fp = 0 /\ csv[r].fn = 0 /\ csv[r].tn = 0

(***************************************************************************)
(* Part 4: the save step of stat_subjects run by two processes on the same *)
(* results CSV.                                                            *)
(***************************************************************************)

\* the subjects each process has in its data_dictionary
RowsPerWriter == 2

\* the two processes
Writers == {"p1", "p2"}

\* the sub_df of the n-th subject of process p
SubDfOf(p, n) == <<p, n>>

\* the file system's view of test_results.csv: bytes = FALSE is a file of
\* length zero, as to_csv leaves it between opening for writing and flushing
NoCsv == [exists |-> FALSE, bytes |-> FALSE, rows |-> <<>>]

\* a results file left by an earlier run, holding the header and no row
HeaderOnlyCsv == [exists |-> TRUE, bytes |-> TRUE, rows |-> <<>>]

\* a process at the top of the loop body, before os.path.isfile
AtIsfile(n) == [pc |-> "isfile", subject |-> n, df |-> <<>>]

InitCsv ==
    /\ StoreIdle /\ ClusterIdle /\ EvalIdle
    /\ McIdle /\ SalIdle /\ RocIdle /\ ScenIdle /\ SgIdle /\ SfxIdle /\ DataIdle
    /\ csvFile \in {NoCsv, HeaderOnlyCsv}
    /\ writers = [p \in Writers |-> AtIsfile(1)]

\* if os.path.isfile(filename): ... else: sub_df.to_csv(filename, index=False)
Isfile(p) ==
    /\ writers[p].pc = "isfile"
    /\ writers' = [writers EXCEPT ![p].pc = IF csvFile.exists THEN "read_csv" ELSE "to_csv",
                                  ![p].df = IF csvFile.exists THEN <<>>
                                            ELSE <<SubDfOf(p, writers[p].subject)>>]
    /\ UNCHANGED csvFile

\* df = pd.read_csv(filename); df = pd.concat([df, sub_df])
ReadCsv(p) ==
    /\ writers[p].pc = "read_csv"
    /\ csvFile.bytes
    /\ writers' = [writers EXCEPT ![p].pc = "to_csv",
                                  ![p].df = Append(csvFile.rows,
                                                   SubDfOf(p, writers[p].subject))]
    /\ UNCHANGED csvFile

\* pd.read_csv raises EmptyDataError on a file of length zero: done = False
ReadCsvEmpty(p) ==
    /\ writers[p].pc = "read_csv"
    /\ ~csvFile.bytes
    /\ writers' = [writers EXCEPT ![p].pc = "read_csv"]
    /\ UNCHANGED csvFile

\* to_csv opens the file for writing, which creates it or cuts it to length zero
ToCsvOpen(p) ==
    /\ writers[p].pc = "to_csv"
    /\ csvFile' = [exists |-> TRUE, bytes |-> FALSE, rows |-> <<>>]
    /\ writers' = [writers EXCEPT ![p].pc = "to_csv_flush"]

\* to_csv writes the frame and closes; the loop goes to the next subject
ToCsvFlush(p) ==
    /\ writers[p].pc = "to_csv_flush"
    /\ csvFile' = [exists |-> TRUE, bytes |-> TRUE, rows |-> writers[p].df]
    /\ writers' = [writers EXCEPT ![p] =
                      IF writers[p].subject < RowsPerWriter
                      THEN AtIsfile(writers[p].subject + 1)
                      ELSE [pc |-> "done", subject |-> writers[p].subject, df |-> <<>>]]

CsvStep ==
    \E p \in Writers :
        \/ Isfile(p)
        \/ ReadCsv(p)
        \/ ReadCsvEmpty(p)
        \/ ToCsvOpen(p)
        \/ ToCsvFlush(p)

NextCsv ==
    CsvStep /\ UNCHANGED <<storeVars, clusterVars, evalVars, mc, sal, roc, scen, sg, suffixed, dataVars>>

SpecCsv == InitCsv /\ [][NextCsv]_vars

\* C12: under every interleaving of the two processes' steps, once both have
\* finished the CSV holds one row for every subject of each process.
C12_NoRowLost ==
    (\A p \in Writers : writers[p].pc = "done") =>
        \A p \in Writers : \A n \in 1..RowsPerWriter :
            Cardinality({i \in 1..Len(csvFile.rows) : csvFile.rows[i] = SubDfOf(p, n)}) = 1

(***************************************************************************)
(* Part 5: the Monte-Carlo dropout branch of load_predict_data on the      *)
(* features of one hemisphere.                                             *)
(***************************************************************************)

\* the dropout probabilities p given to enable_mc_dropout
DropoutPs == {"0", "0.5", "1"}

\* the repetition counts n given to enable_mc_dropout (100 by default)
DropoutNs == {1, 2}

\* the values of the entries of data.x
FeatureLevels == {1, 2}

\* the values np.random.choice([0, 1], shape, p=[dropout_p, 1 - dropout_p]) can
\* draw for one entry: 0 has probability dropout_p, 1 has 1 - dropout_p
ChoiceSupport(dropout_p) ==
    CASE dropout_p = "0" -> {1}
      [] dropout_p = "1" -> {0}
      [] OTHER -> {0, 1}

\* x = torch.clone(data.x); x[mask] = 0, mask being the draw cast to bool
MaskedClone(data_x, mask) ==
    Array([i \in 1..Len(data_x) |-> IF mask[i] = 1 THEN 0 ELSE data_x[i]])

RECURSIVE SumTo(_, _)
SumTo(arr, n) == IF n = 0 THEN 0 ELSE SumTo(arr, n - 1) + arr[n]

\* self.experiment.model(x): a fixed function of the features it is given
ModelForward(x) == SumTo(x, Len(x))

\* torch.mean(torch.stack(list_prediction), axis=0), as (sum, count)
MeanOf(list_prediction) == <<SumTo(list_prediction, Len(list_prediction)), Len(list_prediction)>>

InitDropout ==
    /\ StoreIdle /\ ClusterIdle /\ EvalIdle
    /\ CsvIdle /\ SalIdle /\ RocIdle /\ ScenIdle /\ SgIdle /\ SfxIdle /\ DataIdle
    /\ mc \in [pc : {"loop"}, data_x : [1..NVert -> FeatureLevels],
               dropout_p : DropoutPs, dropout_n : DropoutNs,
               inputs : {<<>>}, list_prediction : {<<>>}, prediction : {<<>>}]

\* one pass of for _ in range(self.dropout_n)
DropoutRepetition ==
    /\ mc.pc = "loop"
    /\ Len(mc.list_prediction) < mc.dropout_n
    /\ \E mask \in [1..NVert -> ChoiceSupport(mc.dropout_p)] :
          LET x == MaskedClone(mc.data_x, mask)
          IN  mc' = [mc EXCEPT !.inputs = Append(@, x),
                               !.list_prediction = Append(@, ModelForward(x))]

\* prediction = torch.mean(torch.stack(list_prediction), axis=0)
DropoutMean ==
    /\ mc.pc = "loop"
    /\ Len(mc.list_prediction) = mc.dropout_n
    /\ mc' = [mc EXCEPT !.pc = "predicted", !.prediction = MeanOf(mc.list_prediction)]

NextDropout ==
    (DropoutRepetition \/ DropoutMean)
        /\ UNCHANGED <<storeVars, clusterVars, evalVars, csvFile, writers, sal, roc, scen, sg,
                       suffixed, dataVars>>

SpecDropout == InitDropout /\ [][NextDropout]_vars

\* C13: with p = 0 the model is evaluated on the unmodified features in every
\* repetition and with p = 1 on all-zero features; the reported prediction is
\* the mean over the n repetitions of the model's outputs and data.x is left
\* as it was.
C13_DropoutKeepsWithOneMinusP ==
    mc.pc \in {"loop", "predicted"} =>
        /\ \A r \in 1..Len(mc.inputs) :
              /\ mc.dropout_p = "0" => mc.inputs[r] = mc.data_x
              /\ mc.dropout_p = "1" => \A i \in 1..NVert : mc.inputs[r][i] = 0
        /\ mc.pc = "predicted" =>
              mc.prediction = <<SumTo(mc.list_prediction, mc.dropout_n), mc.dropout_n>>

(***************************************************************************)
(* Part 6: calculate_saliency on a fully constructed Evaluator whose       *)
(* dataset holds the subjects, so that predicting and clustering a subject *)
(* anew is possible.                                                       *)
(***************************************************************************)

\* self.subject_ids of the saliency run
SaliencySubjects == <<"s1", "s2">>

\* what self.data_dictionary holds for one subject: no entry, an entry without
\* 'cluster_thresholded', an entry without 'input_features' (mode "train"), or both
DictEntries == {"absent", "not_clustered", "no_features", "full"}

\* self.data_dictionary: None, or a dictionary over the subjects
DataDictionaries ==
    {[none |-> TRUE, entries |-> <<>>]}
        \cup [none : {FALSE},
              entries : [{SaliencySubjects[i] : i \in 1..Len(SaliencySubjects)} -> DictEntries]]

\* _load_data_from_dict(subj_id): False when the dictionary is None or a key is
\* missing, the data otherwise
LoadDataFromDict(dict, subj_id) ==
    IF dict.none THEN FALSE ELSE dict.entries[subj_id] = "full"

\* _load_data_from_file(subj_id): False when load_prediction finds no
\* 'prediction_clustered' for the subject
LoadDataFromFile(file, subj_id) == file[subj_id]

\* load_predict_data(store_predictions=True) replaces the dictionary by one with
\* an entry per subject, none of them clustered
Repredicted ==
    [none |-> FALSE,
     entries |-> [s \in {SaliencySubjects[i] : i \in 1..Len(SaliencySubjects)} |->
                     "not_clustered"]]

\* how load_predict_data ends: save_sub_aucs reads self.droput_suffix, which no
\* method assigns
LoadPredictDataEnd == "AttributeError"

InitSaliency ==
    /\ StoreIdle /\ ClusterIdle /\ EvalIdle
    /\ CsvIdle /\ McIdle /\ RocIdle /\ ScenIdle /\ SgIdle /\ SfxIdle /\ DataIdle
    /\ sal \in [pc : {"loop"}, next : {1}, dict : DataDictionaries,
                file : [{SaliencySubjects[i] : i \in 1..Len(SaliencySubjects)} -> BOOLEAN],
                source : {[s \in {SaliencySubjects[i] : i \in 1..Len(SaliencySubjects)} |-> "none"]},
                exc : {""}]

\* the body of for subj_id in self.subject_ids up to the data being found
SaliencySubject ==
    /\ sal.pc = "loop"
    /\ sal.next <= Len(SaliencySubjects)
    /\ LET subj_id == SaliencySubjects[sal.next]
       IN  IF LoadDataFromDict(sal.dict, subj_id)
           THEN sal' = [sal EXCEPT !.source[subj_id] = "dict", !.next = @ + 1]
           ELSE IF LoadDataFromFile(sal.file, subj_id)
           THEN sal' = [sal EXCEPT !.source[subj_id] = "file", !.next = @ + 1]
           ELSE IF LoadPredictDataEnd = "returned"
           THEN \* threshold_and_cluster, then _load_data_from_dict() without subj_id
                sal' = [sal EXCEPT !.dict = Repredicted, !.pc = "raised", !.exc = "TypeError"]
           ELSE sal' = [sal EXCEPT !.dict = Repredicted, !.pc = "raised",
                                   !.exc = LoadPredictDataEnd]

\* pd.DataFrame(saliency_dict).T.to_csv(...); return saliency_vert
SaliencySave ==
    /\ sal.pc = "loop"
    /\ sal.next > Len(SaliencySubjects)
    /\ sal' = [sal EXCEPT !.pc = "returned"]

NextSaliency ==
    (SaliencySubject \/ SaliencySave)
        /\ UNCHANGED <<storeVars, clusterVars, evalVars, csvFile, writers, mc, roc, scen, sg,
                       suffixed, dataVars>>

SpecSaliency == InitSaliency /\ [][NextSaliency]_vars

\* C14: every subject gets its data from the first of dictionary, file and
\* recompute that has it, and calculate_saliency raises only if all three fail;
\* the recompute of a subject of the dataset does not fail, so the call never
\* raises here and a subject found neither in the dictionary nor on disk is
\* served by the recompute.
C14_SaliencyFallbackOrder ==
    /\ sal.pc \in {"loop", "returned"}
    /\ \A i \in 1..(sal.next - 1) :
          LET subj_id == SaliencySubjects[i]
          IN  sal.source[subj_id] =
                  IF LoadDataFromDict(sal.dict, subj_id) THEN "dict"
                  ELSE IF LoadDataFromFile(sal.file, subj_id) THEN "file"
                  ELSE "recompute"

(***************************************************************************)
(* Part 7: the ROC accumulator: roc_dictionary, roc_curves, calculate_aucs *)
(***************************************************************************)

\* the subjects one roc_dictionary accumulates
MaxRocSubjects == 2

\* self.thresholds: an increasing grid from 0 to 1 (np.linspace(0, 1, 51) by
\* default), in quarters
RocThresholds == <<0, 2, 4>>

\* the lesion probabilities of a subject_dictionary["result"], in quarters
RocLevels == {0, 2, 4}

\* the subject dictionaries roc_curves is given: result, input_labels and
\* borderzone, each the lh||rh array of a cohort with one cortex vertex per
\* hemisphere
RocSubjectDictionaries ==
    [result : [1..Len(Hemis) -> RocLevels], input_labels : [1..Len(Hemis) -> {0, 1}],
     borderzone : [1..Len(Hemis) -> BOOLEAN]]

\* a threshold test that leaves out the vertices at the threshold
PredictedAbove(result, threshold) ==
    Array([v \in 1..Len(result) |-> result[v] > threshold])

\* predicted = subject_dictionary["result"] >= threshold
Predicted(result, threshold) ==
    Array([v \in 1..Len(result) |-> result[v] >= threshold])

\* the property roc_dictionary on first use: three arrays of zeros
ZeroRoc ==
    [pc |-> "accumulating", patients |-> 0, controls |-> 0,
     sensitivity |-> [t \in 1..Len(RocThresholds) |-> 0],
     sensitivity_plus |-> [t \in 1..Len(RocThresholds) |-> 0],
     specificity |-> [t \in 1..Len(RocThresholds) |-> 0],
     x |-> <<>>, y1 |-> <<>>, y2 |-> <<>>, auc |-> <<>>, auc_plus |-> <<>>]

\* True counts 1 when added to a float array
AsCount(b) == IF b THEN 1 ELSE 0

\* roc_curves(subject_dictionary): the loop over the thresholds
RocCurvesOn(r, sd) ==
    LET is_patient == \E v \in 1..Len(sd.input_labels) : sd.input_labels[v] > 0
        pred(t) == Predicted(sd.result, RocThresholds[t])
    IN  IF is_patient
        THEN [r EXCEPT
                !.patients = @ + 1,
                !.sensitivity = [t \in 1..Len(RocThresholds) |->
                    @[t] + AsCount(\E v \in 1..Len(sd.result) :
                                       pred(t)[v] /\ sd.input_labels[v] # 0)],
                !.sensitivity_plus = [t \in 1..Len(RocThresholds) |->
                    @[t] + AsCount(\E v \in 1..Len(sd.result) :
                                       pred(t)[v] /\ sd.borderzone[v])]]
        ELSE [r EXCEPT
                !.controls = @ + 1,
                !.specificity = [t \in 1..Len(RocThresholds) |->
                    @[t] + AsCount(~\E v \in 1..Len(sd.result) : pred(t)[v])]]

\* a / b on float arrays, as the pair (a, b): (0, 0) is nan, (a, 0) is inf
Quot(a, b) == <<a, b>>

IsNan(q) == q[1] = 0 /\ q[2] = 0

\* 1 - q for a quotient q; nan stays nan
OneMinus(q) == IF IsNan(q) THEN q ELSE <<q[2] - q[1], q[2]>>

RECURSIVE Trapezoid(_, _, _)
\* the trapezoid sum over the first n points, times 2 specificity[-1] sens[0]:
\* the steps of x are those of specificity, the heights those of sens
Trapezoid(sp, se, n) ==
    IF n <= 1 THEN 0
    ELSE Trapezoid(sp, se, n - 1) + (sp[n] - sp[n - 1]) * (se[n - 1] + se[n])

\* metrics.auc(x, y) with x = 1 - specificity / specificity[-1] and
\* y = sens / sens[0]: nan as soon as a point is nan
Auc(sp, se) ==
    LET n == Len(RocThresholds)
    IN  IF sp[n] = 0 \/ se[1] = 0 THEN <<0, 0>>
        ELSE <<Trapezoid(sp, se, n), 2 * sp[n] * se[1]>>

InitRoc ==
    /\ StoreIdle /\ ClusterIdle /\ EvalIdle
    /\ CsvIdle /\ McIdle /\ SalIdle /\ ScenIdle /\ SgIdle /\ SfxIdle /\ DataIdle
    /\ roc = ZeroRoc

\* self.roc_curves(subject_dictionary) of load_predict_data
RocCurves(sd) ==
    /\ roc.patients + roc.controls < MaxRocSubjects
    /\ roc' = [RocCurvesOn(roc, sd) EXCEPT !.pc = "accumulating"]

\* calculate_aucs()
CalculateAucs ==
    /\ roc.pc = "accumulating"
    /\ LET n == Len(RocThresholds)
       IN  roc' = [roc EXCEPT
                     !.pc = "aucs",
                     !.x = [t \in 1..n |-> OneMinus(Quot(roc.specificity[t], roc.specificity[n]))],
                     !.y1 = [t \in 1..n |-> Quot(roc.sensitivity[t], roc.sensitivity[1])],
                     !.y2 = [t \in 1..n |->
                                Quot(roc.sensitivity_plus[t], roc.sensitivity_plus[1])],
                     !.auc = Auc(roc.specificity, roc.sensitivity),
                     !.auc_plus = Auc(roc.specificity, roc.sensitivity_plus)]

NextRoc ==
    ((\E sd \in RocSubjectDictionaries : RocCurves(sd)) \/ CalculateAucs)
        /\ UNCHANGED <<storeVars, clusterVars, evalVars, csvFile, writers, mc, sal, scen, sg,
                       suffixed, dataVars>>

SpecRoc == InitRoc /\ [][NextRoc]_vars

\* C15: with the grid starting at 0, sensitivity[0] is the number of patients
\* accumulated and specificity[0] is 0; sensitivity and sensitivity_plus do not
\* increase along the grid and specificity does not decrease; a patient changes
\* only the two sensitivity arrays and a control only specificity, each entry by
\* 0 or 1, and no entry ever goes down.
C15_RocSweepMonotone ==
    /\ [](roc.pc \in {"accumulating", "aucs"} =>
            /\ roc.sensitivity[1] = roc.patients
            /\ roc.specificity[1] = 0
            /\ \A t \in 1..(Len(RocThresholds) - 1) :
                  /\ roc.sensitivity[t + 1] <= roc.sensitivity[t]
                  /\ roc.sensitivity_plus[t + 1] <= roc.sensitivity_plus[t]
                  /\ roc.specificity[t + 1] >= roc.specificity[t])
    /\ [][\A t \in 1..Len(RocThresholds) :
              /\ roc'.sensitivity[t] - roc.sensitivity[t] \in {0, 1}
              /\ roc'.sensitivity_plus[t] - roc.sensitivity_plus[t] \in {0, 1}
              /\ roc'.specificity[t] - roc.specificity[t] \in {0, 1}
              /\ roc'.patients > roc.patients => roc'.specificity = roc.specificity
              /\ roc'.controls > roc.controls =>
                    /\ roc'.sensitivity = roc.sensitivity
                    /\ roc'.sensitivity_plus = roc.sensitivity_plus]_vars

\* C15 witness: a patient and a control accumulated, the patient detected at
\* threshold 0 only and the control clean at the highest threshold only.
C15_Witness ==
    /\ roc.pc = "accumulating"
    /\ roc.patients = 1 /\ roc.controls = 1
    /\ roc.sensitivity[1] = 1 /\ roc.sensitivity[Len(RocThresholds)] = 0
    /\ roc.specificity[Len(RocThresholds)] = 1

\* C16: after calculate_aucs on a roc_dictionary that has accumulated at least
\* one subject, the normalised sensitivity curves are 1 at threshold 0, the
\* normalised specificity is 1 at the highest threshold, and every normalised
\* value and both aucs are defined numbers, the values in [0, 1].
C16_NormalisedRocDefined ==
    (roc.pc = "aucs" /\ roc.patients + roc.controls > 0) =>
        LET n == Len(RocThresholds)
            IsOne(q) == q[2] # 0 /\ q[1] = q[2]
            InUnit(q) == q[2] > 0 /\ q[1] >= 0 /\ q[1] <= q[2]
        IN  /\ IsOne(roc.y1[1]) /\ IsOne(roc.y2[1])
            /\ IsOne(OneMinus(roc.x[n])) 
            /\ \A t \in 1..n : InUnit(roc.x[t]) /\ InUnit(roc.y1[t]) /\ InUnit(roc.y2[t])
            /\ ~IsNan(roc.auc) /\ ~IsNan(roc.auc_plus)

(***************************************************************************)
(* Part 8: threshold_and_cluster followed by stat_subjects on a subject    *)
(* with one clean lesion.                                                  *)
(***************************************************************************)

\* the steps in which probabilities and scalar thresholds are counted here: a
\* prediction of 1 is ScenResolution, the thresholds are 1..ScenResolution
ScenResolution == 4

\* the cortex vertices of one hemisphere
CortexVertices == {v \in 1..NVert : CortexMask[v]}

\* the vector that is one on the region and zero elsewhere, times level
OnRegion(region, level) == Array([v \in 1..NVert |-> IF v \in region THEN level ELSE 0])

\* the subject_dictionary of a subject whose prediction is 1 exactly on the
\* region of one hemisphere, the label being the region
CleanLesion(hemi, region) ==
    LET none == OnRegion({}, 0)
        nodist == Array([v \in 1..NVert |-> NaN])
    IN  IF hemi = "left"
        THEN SubjectDictionary(OnRegion(region, ScenResolution), none,
                               OnRegion(region, 1), none, nodist, nodist)
        ELSE SubjectDictionary(none, OnRegion(region, ScenResolution),
                               none, OnRegion(region, 1), nodist, nodist)

InitScenario ==
    /\ StoreIdle /\ ClusterIdle /\ EvalIdle
    /\ CsvIdle /\ McIdle /\ SalIdle /\ RocIdle /\ SgIdle /\ SfxIdle /\ DataIdle
    /\ scen \in [pc : {"loaded"}, hemi : {"left", "right"},
                 region : SUBSET CortexVertices \ {{}},
                 threshold : 1..ScenResolution, min_area_threshold : 1..NvertHemi,
                 cluster_thresholded : {<<>>}, row : {<<>>}]

\* threshold_and_cluster() then stat_subjects() on the subject
ScenarioRun ==
    /\ scen.pc = "loaded"
    /\ LET data == CleanLesion(scen.hemi, scen.region)
           clustered == ClusterThresholded(data,
                            [kind |-> "float", value |-> scen.threshold, params |-> <<>>],
                            scen.min_area_threshold)
       IN  scen' = [scen EXCEPT
                      !.pc = "stats",
                      !.cluster_thresholded = clustered,
                      !.row = SubDf("s1", [data EXCEPT !.has_clustered = TRUE,
                                                        !.cluster_thresholded = clustered])]

NextScenario ==
    ScenarioRun
        /\ UNCHANGED <<storeVars, clusterVars, evalVars, csvFile, writers, mc, sal, roc, sg,
                       suffixed, dataVars>>

SpecScenario == InitScenario /\ [][NextScenario]_vars

\* the positions of the region in the cortex-masked lh||rh arrays
RegionPositions(hemi, region) ==
    {(IF hemi = "left" THEN 0 ELSE NvertHemi) + i : i \in {j \in 1..NvertHemi : CortexLabel[j] \in region}}

\* the region is connected on the mesh
IsConnected(region) ==
    LET mask == Array([v \in 1..NVert |-> v \in region])
    IN  \A v \in region : ComponentOf(MeshAdj, mask, v) = region

\* C17: for a prediction that is 1 exactly on one connected region of at least
\* min_area_threshold cortex vertices, the label being that region and the
\* threshold a scalar in (0, 1], the clustered prediction has exactly one
\* nonzero island, which covers exactly the region, and the row has
\* detected = True, number clusters = 0, FP = FN = 0 and dice lesional = 1.
C17_CleanSingleLesion ==
    (/\ scen.pc = "stats"
     /\ Cardinality(scen.region) >= scen.min_area_threshold
     /\ IsConnected(scen.region))
    => /\ Cardinality(IdsIn(scen.cluster_thresholded, 1, 2 * NvertHemi)) = 1
       /\ {i \in 1..(2 * NvertHemi) : scen.cluster_thresholded[i] # 0}
              = RegionPositions(scen.hemi, scen.region)
       /\ scen.row.detected
       /\ scen.row.number_clusters = 0
       /\ scen.row.fp = 0 /\ scen.row.fn = 0
       /\ scen.row.dice_lesional[1] = scen.row.dice_lesional[2]
       /\ scen.row.dice_lesional[2] > 0

(***************************************************************************)
(* Part 9: sigmoid(x, k, m, ymin, ymax) on one element, in exact fractions *)
(* <<numerator, denominator>> with a positive denominator; <<0, 0>> is nan *)
(* (Sigmoid of Part 3 is this function rounded to the levels of the        *)
(* predictions).                                                           *)
(***************************************************************************)

\* eps = 1e-15, taken at the scale of the inputs below: a positive number
\* smaller than every step of x / xmax
Eps == <<1, 100>>

\* the distances x (NaN among them), the slopes k, the midpoints m and the
\* bounds ymin <= ymax the function is called with
SigmoidXs == {NaN} \cup 0..4
SigmoidKs == {0, 1, 2}
SigmoidMs == {1, 2}
SigmoidYs == 0..3

QNan == <<0, 0>>
QOf(i) == <<i, 1>>
QAdd(a, b) == IF IsNan(a) \/ IsNan(b) THEN QNan ELSE <<a[1] * b[2] + b[1] * a[2], a[2] * b[2]>>
QMul(a, b) == IF IsNan(a) \/ IsNan(b) THEN QNan ELSE <<a[1] * b[1], a[2] * b[2]>>
\* 1 / a for a nonzero a
QInv(a) ==
    IF IsNan(a) THEN QNan ELSE IF a[1] > 0 THEN <<a[2], a[1]>> ELSE <<0 - a[2], 0 - a[1]>>
\* a > b, False when one side is nan
QGt(a, b) == ~IsNan(a) /\ ~IsNan(b) /\ a[1] * b[2] > b[1] * a[2]
QEq(a, b) == ~IsNan(a) /\ ~IsNan(b) /\ a[1] * b[2] = b[1] * a[2]

RECURSIVE QPow(_, _)
\* a ** n for a natural number n
QPow(a, n) == IF n = 0 THEN QOf(1) ELSE QMul(a, QPow(a, n - 1))

\* a sigmoid without scaled_res[x > xmax] = ymin
NotClipped(x, xmax, scaled_res, ymin) == scaled_res

\* scaled_res[x > xmax] = ymin
ClipBeyondXmax(x, xmax, scaled_res, ymin) ==
    IF x # NaN /\ x > xmax THEN QOf(ymin) ELSE scaled_res

\* sigmoid(x, k, m, ymin, ymax) for one element x and a natural number k
SigmoidQ(x, k, m, ymin, ymax) ==
    LET xmax == m * 2
        u == QAdd(IF x = NaN THEN QNan ELSE <<x, xmax>>, Eps)
        base == QAdd(QInv(u), QOf(0 - 1))
        res == QInv(QAdd(QOf(1), QPow(QInv(base), k)))
        scaled_res == QAdd(QMul(res, QOf(ymax - ymin)), QOf(ymin))
        clipped == ClipBeyondXmax(x, xmax, scaled_res, ymin)
    IN  IF k = 0 THEN QOf(ymin)
        ELSE IF QGt(clipped, QOf(ymax)) THEN QOf(ymax) ELSE clipped

InitSigmoid ==
    /\ StoreIdle /\ ClusterIdle /\ EvalIdle
    /\ CsvIdle /\ McIdle /\ SalIdle /\ RocIdle /\ ScenIdle /\ SfxIdle /\ DataIdle
    /\ sg \in {c \in [pc : {"called"}, x : SigmoidXs, k : SigmoidKs, m : SigmoidMs,
                      ymin : SigmoidYs, ymax : SigmoidYs, out : {QNan}] : c.ymin <= c.ymax}

SigmoidCall ==
    /\ sg.pc = "called"
    /\ sg' = [sg EXCEPT !.pc = "returned",
                        !.out = SigmoidQ(sg.x, sg.k, sg.m, sg.ymin, sg.ymax)]

NextSigmoid ==
    SigmoidCall
        /\ UNCHANGED <<storeVars, clusterVars, evalVars, csvFile, writers, mc, sal, roc, scen,
                       suffixed, dataVars>>

SpecSigmoid == InitSigmoid /\ [][NextSigmoid]_vars

\* C18: for every x >= 0, x = 0 and x = 2m included, and every ymin <= ymax the
\* result lies in [ymin, ymax].
C18_SigmoidWithinBounds ==
    (sg.pc = "returned" /\ sg.x # NaN /\ sg.x >= 0) =>
        /\ ~IsNan(sg.out)
        /\ ~QGt(QOf(sg.ymin), sg.out)
        /\ ~QGt(sg.out, QOf(sg.ymax))

MaxSuffixCalls == 3

\* the suffix arguments the functions are called with
SuffixArgs == {"", "_val"}

NoFileCall == [fn |-> "none", arg |-> "", dropout |-> FALSE, files |-> {}, raised |-> "none"]

\* the attributes an instance has: dropout_suffix is one, droput_suffix none
Attributes == {"dropout", "dropout_p", "dropout_n", "dropout_suffix"}

\* self.<name>: the value, or AttributeError
GetSuffixAttr(name) ==
    IF name \in Attributes THEN [raised |-> "none", value |-> suffixed.dropout_suffix]
    ELSE [raised |-> "AttributeError", value |-> ""]

\* f"{suffix}{self.<name>}", then the files `bases` are opened under
\* save_dir/results, then the call goes on to read the attributes `after`
FileCall(fn, arg, attr, bases, after) ==
    LET a == GetSuffixAttr(attr)
        suffix == arg \o a.value
        opened == IF a.raised = "none" THEN {b[1] \o suffix \o b[2] : b \in bases} ELSE {}
        raised == IF a.raised # "none" THEN a.raised
                  ELSE IF after \subseteq Attributes THEN "none" ELSE "AttributeError"
    IN  /\ suffixed.pc = "constructed"
        /\ suffixed.calls < MaxSuffixCalls
        /\ suffixed' =
               [suffixed EXCEPT
                   !.calls = @ + 1,
                   !.files = @ \cup opened,
                   !.last = [fn |-> fn, arg |-> arg, dropout |-> suffixed.dropout,
                             files |-> opened, raised |-> raised]]

InitSuffix ==
    /\ StoreIdle /\ ClusterIdle /\ EvalIdle
    /\ CsvIdle /\ McIdle /\ SalIdle /\ RocIdle /\ ScenIdle /\ SgIdle /\ DataIdle
    /\ suffixed = [pc |-> "constructed", dropout |-> FALSE, dropout_suffix |-> "",
                   calls |-> 0, files |-> {}, last |-> NoFileCall]

EnableMcDropout ==
    /\ suffixed.pc = "constructed"
    /\ suffixed' = [suffixed EXCEPT !.dropout = TRUE, !.dropout_suffix = "_dropout"]

DisableMcDropout ==
    /\ suffixed.pc = "constructed"
    /\ suffixed' = [suffixed EXCEPT !.dropout = FALSE, !.dropout_suffix = ""]

\* save_prediction of every subject, then save_sub_aucs()
SuffixLoadPredictData ==
    \E arg \in SuffixArgs :
        FileCall("load_predict_data", arg, "dropout_suffix", {<<"predictions", ".hdf5">>},
                 {"droput_suffix"})

SuffixSaveSubAucs ==
    \E arg \in SuffixArgs :
        FileCall("save_sub_aucs", arg, "droput_suffix", {<<"sub_aucs", ".pickle">>}, {})

SuffixSaveRocScores ==
    \E arg \in SuffixArgs :
        FileCall("save_roc_scores", arg, "droput_suffix", {<<"roc_auc", ".pickle">>}, {})

SuffixThresholdAndCluster ==
    \E arg \in SuffixArgs :
        FileCall("threshold_and_cluster", arg, "dropout_suffix", {<<"predictions", ".hdf5">>}, {})

SuffixLoadDataFromFile ==
    \E arg \in SuffixArgs :
        FileCall("load_data_from_file", arg, "dropout_suffix", {<<"predictions", ".hdf5">>}, {})

\* subjects found in the file: load_prediction, then saliency{suffix}.csv
SuffixCalculateSaliency ==
    \E arg \in SuffixArgs :
        FileCall("calculate_saliency", arg, "dropout_suffix",
                 {<<"predictions", ".hdf5">>, <<"saliency", ".csv">>}, {})

SuffixStatSubjects ==
    \E arg \in SuffixArgs :
        FileCall("stat_subjects", arg, "dropout_suffix", {<<"test_results", ".csv">>}, {})

NextSuffix ==
    /\ \/ EnableMcDropout
       \/ DisableMcDropout
       \/ SuffixLoadPredictData
       \/ SuffixSaveSubAucs
       \/ SuffixSaveRocScores
       \/ SuffixThresholdAndCluster
       \/ SuffixLoadDataFromFile
       \/ SuffixCalculateSaliency
       \/ SuffixStatSubjects
    /\ UNCHANGED <<storeVars, clusterVars, evalVars, csvFile, writers, mc, sal, roc, scen, sg, dataVars>>

SpecSuffix == InitSuffix /\ [][NextSuffix]_vars

\* the files of results: base name and extension
ResultFiles ==
    {<<"predictions", ".hdf5">>, <<"saliency", ".csv">>, <<"test_results", ".csv">>,
     <<"roc_auc", ".pickle">>, <<"sub_aucs", ".pickle">>}

\* the names a run with, or without, dropout may use
NamesOf(dropout) ==
    {b[1] \o arg \o (IF dropout THEN "_dropout" ELSE "") \o b[2] :
        b \in ResultFiles, arg \in SuffixArgs}

\* C20: every function that saves or reads result files completes, and the
\* files it uses carry "_dropout" after enable_mc_dropout and do not after
\* disable_mc_dropout, so the two kinds of run use disjoint files.
C20_DropoutSuffixOnEveryFile ==
    suffixed.pc = "constructed" /\ suffixed.last.fn # "none" =>
        /\ suffixed.last.raised = "none"
        /\ suffixed.last.files # {}
        /\ suffixed.last.files \subseteq NamesOf(suffixed.last.dropout)
        /\ suffixed.last.files \cap NamesOf(~suffixed.last.dropout) = {}

(***************************************************************************)
(* Part 11: Oversampler over a data source.  The data source is its        *)
(* data_list, one entry per hemisphere, of which only d[1].sum() is read.  *)
(***************************************************************************)

\* the longest data_list
MaxEntries == 3

\* data_list as the sums of the labels of its entries
DataSources == UNION {[1..n -> {0, 2}] : n \in 1..MaxEntries}

\* GraphDataset.lesional_idxs: the indices, counted from 0, of the entries
\* with a non-zero label sum, in increasing order
RECURSIVE LesionalIdxs(_, _)
LesionalIdxs(data_list, i) ==
    IF i >= Len(data_list) THEN <<>>
    ELSE (IF data_list[i + 1] # 0 THEN <<i>> ELSE <<>>) \o LesionalIdxs(data_list, i + 1)

RECURSIVE PermutationsOf(_)
\* every ordering of a set, as sequences
PermutationsOf(S) ==
    IF S = {} THEN {<<>>}
    ELSE UNION {{<<x>> \o p : p \in PermutationsOf(S \ {x})} : x \in S}

\* torch.randperm(n) for each n: the orderings of 0..n-1
Randperm == [n \in 0..(2 * MaxEntries) |-> PermutationsOf(0..(n - 1))]

\* seq[:n]
Prefix(seq, n) == SubSeq(seq, 1, IF n < Len(seq) THEN n ELSE Len(seq))

\* Oversampler.num_samples with _num_samples None
NumSamples(data_list) == Len(LesionalIdxs(data_list, 0)) * 3

InitSampler ==
    /\ StoreIdle /\ ClusterIdle /\ EvalIdle
    /\ CsvIdle /\ McIdle /\ SalIdle /\ RocIdle /\ ScenIdle /\ SgIdle /\ SfxIdle
    /\ GdsIdle /\ SigFileIdle /\ CtorIdle
    /\ sampler \in [pc : {"source"}, data_list : DataSources, exc : {""}, epoch : {<<>>}]

\* Oversampler.__init__
OversamplerInit ==
    /\ sampler.pc = "source"
    /\ sampler' =
           IF NumSamples(sampler.data_list) <= 0
           THEN [sampler EXCEPT !.pc = "raised", !.exc = "ValueError"]
           ELSE [sampler EXCEPT !.pc = "constructed"]

\* Oversampler.__iter__: get_sampling_idxs(), then the list is iterated.  An
\* epoch reads nothing an earlier epoch wrote, so one epoch per sampler is
\* followed.
OversamplerIter ==
    /\ sampler.pc = "constructed"
    /\ LET lesional_idxs == LesionalIdxs(sampler.data_list, 0)
           n_non == Len(lesional_idxs) * 2
       IN  \E perm \in Randperm[Len(sampler.data_list)] :
               LET non_ids == Prefix(perm, n_non)
                   ids_to_choose == lesional_idxs \o non_ids
               IN  \E shuffle \in Randperm[Len(ids_to_choose)] :
                       sampler' =
                           [sampler EXCEPT
                               !.pc = "iterated",
                               !.epoch = [j \in 1..Len(ids_to_choose) |->
                                              ids_to_choose[shuffle[j] + 1]]]

NextSampler ==
    (OversamplerInit \/ OversamplerIter)
        /\ UNCHANGED <<storeVars, clusterVars, evalVars, csvFile, writers, mc, sal, roc, scen,
                       sg, suffixed, gds, sigFile, ctor>>

SpecSampler == InitSampler /\ [][NextSampler]_vars

\* how often idx occurs in seq
Occurrences(seq, idx) == Cardinality({j \in 1..Len(seq) : seq[j] = idx})

\* C21: a sampler over L >= 1 lesional entries out of N yields 3*L =
\* len(sampler) indices per epoch, all in [0, N), every lesional index at
\* least once; a sampler over L = 0 lesional entries is refused with ValueError.
C21_OversamplerEpoch ==
    LET N == Len(sampler.data_list)
        lesional == LesionalIdxs(sampler.data_list, 0)
        L == Len(lesional)
    IN  /\ sampler.pc = "raised" => (L = 0 /\ sampler.exc = "ValueError")
        /\ sampler.pc \in {"constructed", "iterated"} => L >= 1
        /\ sampler.pc = "iterated" =>
              /\ Len(sampler.epoch) = 3 * L
              /\ Len(sampler.epoch) = NumSamples(sampler.data_list)
              /\ \A j \in 1..Len(sampler.epoch) : sampler.epoch[j] \in 0..(N - 1)
              /\ \A j \in 1..L : Occurrences(sampler.epoch, lesional[j]) >= 1

(***************************************************************************)
(* Part 12: GraphDataset.  An entry of data_list is kept as its labels and *)
(* the subject and hemisphere it was made from (the features are read by   *)
(* no property below); levels 5..7 of the icospheres have 1, 2 and 4       *)
(* vertices.                                                               *)
(***************************************************************************)

\* the lists of subject ids a dataset is built over: p1 is a patient with a
\* lesion on the left hemisphere, c1 and c2 are controls
SubjectIdLists == {<<"p1">>, <<"c1">>, <<"p1", "c1">>, <<"c1", "c2">>}

LevelSize(level) == 2 ^ (level - 5)

\* the labels prep.get_data_preprocessed returns for one hemisphere
LesionOf(subj, hemi) ==
    IF subj = "p1" /\ hemi = "lh" THEN <<1, 1, 0, 0>> ELSE <<0, 0, 0, 0>>

\* the file .on_lh.boundary_zone.mgh of one hemisphere
BoundaryZoneOf(subj, hemi) ==
    IF subj = "p1" /\ hemi = "lh" THEN <<0, 0, 150, 300>> ELSE <<7, 7, 7, 7>>

IsPatient(subj) == subj = "p1"
LesionHemisphere(subj) == IF subj = "p1" THEN "lh" ELSE "none"

\* the labels synthetic_lesion can give one hemisphere
SyntheticLabels == {<<0, 0, 0, 0>>, <<0, 1, 1, 0>>}

\* np.clip(gdist, 0, 200), then 200 everywhere away from the lesion
Gdist(subj, hemi) ==
    IF ~IsPatient(subj) \/ LesionHemisphere(subj) # hemi
    THEN [v \in 1..LevelSize(7) |-> 200]
    ELSE [v \in 1..LevelSize(7) |->
             LET g == BoundaryZoneOf(subj, hemi)[v]
             IN  IF g < 0 THEN 0 ELSE IF g > 200 THEN 200 ELSE g]

\* the data_parameters a dataset is built with
DatasetParams ==
    [run_synthetic : BOOLEAN, use_controls : BOOLEAN, n_subs : {2, 3},
     number_of_folds : {2}, combine_hemis : {"None", "stack", "mean"}]

DatasetModes == {"train", "val", "test"}
OutputLevels == {<<>>, <<6>>, <<5, 6>>}

\* np.arange(n) as subject ids
Arange(n) == SubSeq(<<"0", "1", "2">>, 1, n)

\* self.n_subs_split
NSubsSplit(params, mode) ==
    LET n_subs_split_i == params.n_subs \div params.number_of_folds
    IN  IF mode = "train" THEN n_subs_split_i * (params.number_of_folds - 1)
        ELSE IF mode = "val" THEN n_subs_split_i
        ELSE params.n_subs

Entry(subj, hemi, y) == [subj |-> subj, hemi |-> hemi, y |-> y]

RECURSIVE Flatten(_)
\* the lists appended one after the other
Flatten(lists) == IF lists = <<>> THEN <<>> ELSE Head(lists) \o Flatten(Tail(lists))

\* np.sum(self.subject_samples == s_i), s_i counted from 0
Duplicates(subject_samples, s_i) ==
    Cardinality({j \in 1..Len(subject_samples) : subject_samples[j] = s_i})

\* non-decreasing sequences: np.sort of a choice
IsSorted(seq) == \A j \in 1..(Len(seq) - 1) : seq[j] <= seq[j + 1]

NoGet == [idx |-> 0 - 1, exc |-> "", y |-> <<>>, distance_map |-> <<>>,
          has_distance_map |-> FALSE, output_level |-> <<>>,
          output_level_distance_map |-> <<>>]

\* __init__ without the synthetic task
RealDataset(subject_ids, params, distance_maps, base) ==
    IF params.combine_hemis \notin {"None", "stack"}
    THEN {[base EXCEPT !.pc = "raised", !.exc = "NotImplementedError"]}
    ELSE {[base EXCEPT
            !.subject_ids = subject_ids,
            !.data_list = Flatten([s \in 1..Len(subject_ids) |->
                              <<Entry(subject_ids[s], "lh", LesionOf(subject_ids[s], "lh")),
                                Entry(subject_ids[s], "rh", LesionOf(subject_ids[s], "rh"))>>]),
            !.distance_map_list =
                IF distance_maps
                THEN Flatten([s \in 1..Len(subject_ids) |->
                         <<Entry(subject_ids[s], "lh", Gdist(subject_ids[s], "lh")),
                           Entry(subject_ids[s], "rh", Gdist(subject_ids[s], "rh"))>>])
                ELSE <<>>]}

\* __init__ with run_synthetic and without controls: generate and return
SyntheticWithoutControls(n_subs_split, base) ==
    {[base EXCEPT
        !.subject_ids = Arange(n_subs_split),
        !.data_list = Flatten([s \in 1..n_subs_split |->
                          <<Entry(Arange(n_subs_split)[s], "lh", ys[s][1]),
                            Entry(Arange(n_subs_split)[s], "rh", ys[s][2])>>])] :
     ys \in [1..n_subs_split -> SyntheticLabels \X SyntheticLabels]}

\* the loop over subject_ids with run_synthetic: one pair of entries per
\* duplicate when combine_hemis is None, one pair of distance maps per subject
\* (the duplicates of a subject are given the same synthetic labels here)
SyntheticOver(ids, subject_samples, final_ids, params, distance_maps, base) ==
    {[base EXCEPT
        !.subject_ids = final_ids,
        !.data_list =
            IF params.combine_hemis = "None"
            THEN Flatten([s \in 1..Len(ids) |->
                     Flatten([d \in 1..Duplicates(subject_samples, s - 1) |->
                         <<Entry(ids[s], "lh", ys[s][1]), Entry(ids[s], "rh", ys[s][2])>>])])
            ELSE <<>>,
        !.distance_map_list =
            IF distance_maps
            THEN Flatten([s \in 1..Len(ids) |->
                     <<Entry(ids[s], "lh", Gdist(ids[s], "lh")),
                       Entry(ids[s], "rh", Gdist(ids[s], "rh"))>>])
            ELSE <<>>] :
     ys \in [1..Len(ids) -> SyntheticLabels \X SyntheticLabels]}

\* __init__ with run_synthetic and controls: subject ids undersampled, or
\* sampled several times
SyntheticWithControls(subject_ids, n_subs_split, params, distance_maps, base) ==
    IF n_subs_split <= Len(subject_ids)
    THEN UNION {SyntheticOver(chosen, [j \in 1..Len(chosen) |-> j - 1], chosen,
                              params, distance_maps, base) :
                chosen \in [1..n_subs_split -> {subject_ids[j] : j \in 1..Len(subject_ids)}]}
    ELSE UNION {SyntheticOver(subject_ids, subject_samples,
                              [j \in 1..n_subs_split |-> subject_ids[subject_samples[j] + 1]],
                              params, distance_maps, base) :
                subject_samples \in
                    {c \in [1..n_subs_split -> 0..(Len(subject_ids) - 1)] : IsSorted(c)}}

InitDataset ==
    /\ StoreIdle /\ ClusterIdle /\ EvalIdle
    /\ CsvIdle /\ McIdle /\ SalIdle /\ RocIdle /\ ScenIdle /\ SgIdle /\ SfxIdle
    /\ SamplerIdle /\ SigFileIdle /\ CtorIdle
    /\ gds \in [pc : {"args"}, arg_ids : SubjectIdLists, params : DatasetParams,
                mode : DatasetModes, output_levels : OutputLevels, distance_maps : BOOLEAN,
                exc : {""}, subject_ids : {<<>>}, data_list : {<<>>},
                distance_map_list : {<<>>}, got : {NoGet}]

\* GraphDataset.__init__
GraphDatasetInit ==
    /\ gds.pc = "args"
    /\ LET base == [gds EXCEPT !.pc = "constructed"]
           n_subs_split == NSubsSplit(gds.params, gds.mode)
       IN  gds' \in
             IF ~gds.params.run_synthetic
             THEN RealDataset(gds.arg_ids, gds.params, gds.distance_maps, base)
             ELSE IF ~gds.params.use_controls
             THEN SyntheticWithoutControls(n_subs_split, base)
             ELSE SyntheticWithControls(gds.arg_ids, n_subs_split, gds.params,
                                        gds.distance_maps, base)

\* GraphDataset.len
DatasetLen == 2 * Len(gds.subject_ids)

\* HexPool: the vertices of a level are the first vertices of the level
\* above; center_pool keeps their values, the default takes the maximum over
\* the vertex and the one it was split into
HexPool(level, x, center_pool) ==
    [v \in 1..LevelSize(level) |->
        IF center_pool \/ x[v] >= x[v + LevelSize(level)] THEN x[v]
        ELSE x[v + LevelSize(level)]]

RECURSIVE PoolTo(_, _, _)
\* the chain of pool_layers from level 7 down to `level`
PoolTo(level, x, center_pool) ==
    IF level = 7 THEN x ELSE HexPool(level, PoolTo(level + 1, x, center_pool), center_pool)

\* dists_pooled = {7: data.y}
DistsPooledInput(y, distance_map) == y

\* GraphDataset.get(idx)
GraphDatasetGet(idx) ==
    /\ gds.pc \in {"constructed", "got"}
    /\ idx \in 0..(DatasetLen - 1)
    /\ LET has_dm == gds.distance_maps
           levels == gds.output_levels
           ok == /\ idx < Len(gds.data_list)
                 /\ has_dm => idx < Len(gds.distance_map_list)
           y == gds.data_list[idx + 1].y
           distance_map == IF has_dm THEN gds.distance_map_list[idx + 1].y ELSE <<>>
       IN  gds' =
             IF ~ok
             THEN [gds EXCEPT !.pc = "got", !.got = [NoGet EXCEPT !.idx = idx,
                                                                !.exc = "IndexError"]]
             ELSE [gds EXCEPT
                     !.pc = "got",
                     !.got = [idx |-> idx, exc |-> "", y |-> y,
                              distance_map |-> distance_map,
                              has_distance_map |-> has_dm,
                              output_level |->
                                  [j \in 1..Len(levels) |-> PoolTo(levels[j], y, FALSE)],
                              output_level_distance_map |->
                                  IF has_dm
                                  THEN [j \in 1..Len(levels) |->
                                           PoolTo(levels[j],
                                                  DistsPooledInput(y, distance_map), TRUE)]
                                  ELSE <<>>]]

NextDataset ==
    (GraphDatasetInit \/ \E idx \in 0..(DatasetLen - 1) : GraphDatasetGet(idx))
        /\ UNCHANGED <<storeVars, clusterVars, evalVars, csvFile, writers, mc, sal, roc, scen,
                       sg, suffixed, sampler, sigFile, ctor>>

SpecDataset == InitDataset /\ [][NextDataset]_vars

\* C22: get(idx) of a dataset with output levels and distance maps gives, for
\* every requested level, output_level<level>_distance_map equal to the
\* sample's distance_map pooled from level 7 down to that level.
C22_PooledDistanceMaps ==
    (gds.pc = "got" /\ gds.got.exc = "" /\ gds.got.has_distance_map) =>
        /\ Len(gds.got.output_level_distance_map) = Len(gds.output_levels)
        /\ \A j \in 1..Len(gds.output_levels) :
              gds.got.output_level_distance_map[j] =
                  PoolTo(gds.output_levels[j], gds.got.distance_map, TRUE)

\* C30: in a dataset constructed with distance maps, data_list and
\* distance_map_list have len() = 2 * len(subject_ids) entries each, and the
\* entries at idx are both of subject idx // 2, left hemisphere for an even
\* idx and right for an odd one.
C30_IndexAlignment ==
    (gds.pc \in {"constructed", "got"} /\ gds.distance_maps) =>
        /\ Len(gds.data_list) = DatasetLen
        /\ Len(gds.distance_map_list) = DatasetLen
        /\ \A idx \in 0..(DatasetLen - 1) :
              LET subj == gds.subject_ids[(idx \div 2) + 1]
                  hemi == IF idx % 2 = 0 THEN "lh" ELSE "rh"
              IN  /\ gds.data_list[idx + 1].subj = subj
                  /\ gds.data_list[idx + 1].hemi = hemi
                  /\ gds.distance_map_list[idx + 1].subj = subj
                  /\ gds.distance_map_list[idx + 1].hemi = hemi

(***************************************************************************)
(* Part 13: the store when the evaluator's process is killed inside        *)
(* save_prediction.  Data handed to the file by a completed dset[:] = ...  *)
(* stay in the file; the assignment running when the process dies has      *)
(* either reached the file or not.  A new process then uses the store.     *)
(***************************************************************************)

\* the process dies inside the with block of save_prediction
Kill ==
    /\ pc \in {"save_open", "save_lh", "save_rh"}
    /\ LET i == IF pc = "save_rh" THEN 1 ELSE 0
           path == DsetPath(call.subject, Hemis[i + 1], call.kind)
       IN  \E reached \in BOOLEAN :
               h5' = IF reached /\ pc # "save_open"
                     THEN [h5 EXCEPT ![call.sfx] =
                              RequireAndWrite(@, path, HemiSlice(call.arr, i))]
                     ELSE h5
    /\ pc' = "idle"
    /\ call' = NoCall
    /\ ret' = [NoRet EXCEPT !.op = "killed", !.key = <<call.sfx, call.subject, call.kind>>]
    /\ UNCHANGED <<otherLock, contention, retried, lastSaved, overwrote>>

\* the keys followed through a crash: two subjects in one file
CrashKeys == {k \in SaveKeys : k[1] = "" /\ k[3] = "prediction"}

\* the store used by one process at a time, which may die while saving
CrashStep ==
    \/ \E key \in CrashKeys, t \in 1..NPayloads, len \in PayloadLens :
          SaveCall(key, Payload(t, len))
    \/ SaveOpenOk
    \/ SaveWrite
    \/ Kill
    \/ \E key \in CrashKeys : LoadPrediction(key)

NextCrash == CrashStep /\ UNCHANGED <<clusterVars, evalVars, unitVars>>

SpecCrash == InitStore /\ [][NextCrash]_vars

\* C23: whatever save was killed, a later load that finds an array finds the
\* lh and rh halves written by one save call, never the lh half of one save
\* with the rh half of another.
C23_CrashConsistentStore ==
    (ret.op = "load" /\ ret.status = "returned" /\ ret.found) =>
        \E t \in 1..NPayloads : ret.val = Payload(t, 2 * NvertHemi)

(***************************************************************************)
(* Part 14: further properties of threshold_and_cluster and stat_subjects  *)
(* on the evaluator of Part 3.                                             *)
(***************************************************************************)

\* the local island_count of threshold_and_cluster after the pass of the loop
\* over each hemisphere
IslandCountAfter(data, threshold, min_area_threshold) ==
    LET hemis == ResultHemisClustered(data, threshold, min_area_threshold)
        after_left == NextIslandCount(0, hemis.left)
    IN  [left |-> after_left, right |-> NextIslandCount(after_left, hemis.right)]

\* C24: for every subject threshold_and_cluster has processed, island_count is
\* nL after the left hemisphere and nL + nR after the right one, nL and nR
\* being the islands that survive the area filter on each hemisphere.
C24_IslandCountIsRunningTotal ==
    \A s \in DOMAIN dataDict :
        dataDict[s].has_clustered =>
            LET data == dataDict[s]
                thr == ThresholdSubj(ev.threshold, data)
                predictions == SplitHemispheres(data.result)
                nL == Cardinality(SurvivingComponents(
                          HemiMask(predictions, "left", thr), ev.min_area_threshold))
                nR == Cardinality(SurvivingComponents(
                          HemiMask(predictions, "right", thr), ev.min_area_threshold))
                island_count == IslandCountAfter(data, ev.threshold, ev.min_area_threshold)
            IN  /\ island_count.left = nL
                /\ island_count.right = nL + nR

\* the data dictionary threshold_and_cluster leaves behind when run on dict
Reclustered(dict, threshold, min_area_threshold) ==
    [s \in DOMAIN dict |->
        [dict[s] EXCEPT
            !.has_clustered = TRUE,
            !.cluster_thresholded =
                ClusterThresholded(dict[s], threshold, min_area_threshold)]]

C29_StatsOnUnclusteredReturns ==
    (/\ evret.op = "stat_subjects"
     /\ dataDict # <<>>
     /\ \E s \in DOMAIN dataDict : ~dataDict[s].has_clustered)
        => /\ evret.status = "returned"
           /\ evret.exc = ""
           /\ csv = <<>>

(***************************************************************************)
(* Part 15: the ROC counters over several calls of load_predict_data on    *)
(* one Evaluator, each call with the default grid of thresholds.           *)
(***************************************************************************)

\* the calls of load_predict_data made on the evaluator
MaxRocCalls == 2

\* the evaluator after __init__ (self._roc_dictionary = None: zeros on first
\* use), with the calls made and the patients and controls of the running call
RocAfterInit ==
    [pc |-> "constructed", patients |-> 0, controls |-> 0,
     sensitivity |-> ZeroRoc.sensitivity,
     sensitivity_plus |-> ZeroRoc.sensitivity_plus,
     specificity |-> ZeroRoc.specificity,
     x |-> <<>>, y1 |-> <<>>, y2 |-> <<>>, auc |-> <<>>, auc_plus |-> <<>>,
     calls |-> 0, call_patients |-> 0, call_controls |-> 0]

InitRocCalls ==
    /\ StoreIdle /\ ClusterIdle /\ EvalIdle
    /\ CsvIdle /\ McIdle /\ SalIdle /\ ScenIdle /\ SgIdle /\ SfxIdle /\ DataIdle
    /\ roc = RocAfterInit

\* load_predict_data is entered: nothing of the roc dictionary is touched
LoadPredictDataBegin ==
    /\ roc.pc \in {"constructed", "aucs"}
    /\ roc.calls < MaxRocCalls
    /\ roc' = [roc EXCEPT !.pc = "accumulating", !.calls = @ + 1,
                          !.call_patients = 0, !.call_controls = 0]

\* the body of the loop for one subject: self.roc_curves(subject_dictionary)
LoadPredictDataSubject(sd) ==
    /\ roc.pc = "accumulating"
    /\ roc.call_patients + roc.call_controls < MaxRocSubjects
    /\ LET is_patient == \E v \in 1..Len(sd.input_labels) : sd.input_labels[v] > 0
       IN  roc' = [RocCurvesOn(roc, sd) EXCEPT
                      !.call_patients = @ + AsCount(is_patient),
                      !.call_controls = @ + AsCount(~is_patient)]

\* the end of load_predict_data: calculate_aucs()
LoadPredictDataAucs == CalculateAucs

NextRocCalls ==
    \/ LoadPredictDataBegin /\ UNCHANGED <<storeVars, clusterVars, evalVars, csvFile, writers,
                                           mc, sal, scen, sg, suffixed, dataVars>>
    \/ (\E sd \in RocSubjectDictionaries : LoadPredictDataSubject(sd))
          /\ UNCHANGED <<storeVars, clusterVars, evalVars, csvFile, writers, mc, sal, scen, sg,
                         suffixed, dataVars>>
    \/ LoadPredictDataAucs /\ UNCHANGED <<storeVars, clusterVars, evalVars, csvFile, writers,
                                          mc, sal, scen, sg, suffixed, dataVars>>

SpecRocCalls == InitRocCalls /\ [][NextRocCalls]_vars

\* C26: at the end of every call of load_predict_data, the counters hold
\* counts over the subjects of that call only: no sensitivity or
\* sensitivity_plus entry exceeds the patients of the call, no specificity
\* entry its controls, and there is one entry per threshold.
C26_RocCountersPerCall ==
    roc.pc = "aucs" =>
        /\ Len(roc.sensitivity) = Len(RocThresholds)
        /\ Len(roc.sensitivity_plus) = Len(RocThresholds)
        /\ Len(roc.specificity) = Len(RocThresholds)
        /\ \A t \in 1..Len(RocThresholds) :
              /\ roc.sensitivity[t] <= roc.call_patients
              /\ roc.sensitivity_plus[t] <= roc.call_patients
              /\ roc.specificity[t] <= roc.call_controls

(***************************************************************************)
(* Part 16: the sigmoid parameter file, written by optimise_sigmoid of one *)
(* Evaluator and read by the constructor of a later one of the same        *)
(* experiment.  A path is <<directory, file name>>.                        *)
(***************************************************************************)

ExperimentPath == "experiment_path"

\* the save_dir argument of the evaluator that optimises: None, or a directory
SaveDirArgs == {"None", "save_dir"}

\* model_name, as its parts between the dots
ModelNames == {<<"best_model", "pt">>, <<"ensemble", "pt">>}

\* the suffix argument of optimise_sigmoid: its default, and a model name
\* without its extension
OptimiseSuffixes == {"", "best_model"}

\* itertools.product(ymin_r, ymax_r, k_r, m_r): the rows (ymin, ymax, k, m) in
\* the order they are tried
SigmoidGrid == <<<<1, 3, 1, 1>>, <<1, 3, 1, 2>>, <<2, 3, 1, 1>>>>

\* dice + sensitivity of each row as get_scores finds them: numbers, or nan
\* for every row when the data hold no patient (np.mean of an empty list)
GridSums ==
    [1..Len(SigmoidGrid) -> {1, 2}] \cup {[i \in 1..Len(SigmoidGrid) |-> NaN]}

\* df['sum'].max(): nan values are skipped, nan when there is nothing else
SumMax(sums) ==
    IF \A i \in 1..Len(sums) : sums[i] = NaN THEN NaN
    ELSE CHOOSE x \in {sums[i] : i \in 1..Len(sums)} \ {NaN} :
             \A i \in 1..Len(sums) : sums[i] = NaN \/ sums[i] <= x

RECURSIVE RowsWhere(_, _, _)
\* df[df['sum'] == best_dice_sens]: the rows in their order; nan equals nothing
RowsWhere(sums, best, n) ==
    IF n = 0 THEN <<>>
    ELSE RowsWhere(sums, best, n - 1)
             \o (IF sums[n] # NaN /\ best # NaN /\ sums[n] = best
                 THEN <<SigmoidGrid[n]>> ELSE <<>>)

\* model_name.split('.')[0]
ModelSuffix(model_name) == model_name[1]

\* the path optimise_sigmoid saves the best parameters at
WrittenSigmoidFile(save_dir, suffix) ==
    <<save_dir, "sigmoid_optimal_parameters_" \o suffix \o ".csv">>

\* the path the constructor looks for
SigmoidFile(model_name) ==
    <<ExperimentPath, "sigmoid_optimal_parameters_" \o ModelSuffix(model_name) \o ".csv">>

NoParams == [kind |-> "none", params |-> <<>>]

InitParams ==
    /\ StoreIdle /\ ClusterIdle /\ EvalIdle
    /\ CsvIdle /\ McIdle /\ SalIdle /\ RocIdle /\ ScenIdle /\ SgIdle /\ SfxIdle
    /\ SamplerIdle /\ GdsIdle /\ CtorIdle
    /\ sigFile \in [pc : {"predicted"}, save_dir_arg : SaveDirArgs, model_name : ModelNames,
                    files : {<<>>}, best : {<<>>}, threshold : {NoParams}, reported : {""}]

\* optimise_sigmoid(suffix=suffix) on an evaluator that holds predictions
OptimiseSigmoid(suffix, sums) ==
    /\ sigFile.pc = "predicted"
    /\ LET save_dir == IF sigFile.save_dir_arg = "None" THEN ExperimentPath
                       ELSE sigFile.save_dir_arg
           df_best == RowsWhere(sums, SumMax(sums), Len(SigmoidGrid))
           filename == WrittenSigmoidFile(save_dir, suffix)
       IN  sigFile' =
             IF df_best = <<>>
             THEN \* df_best.to_csv, then df_best[...].values[0] of an empty frame
                  [sigFile EXCEPT !.pc = "optimised", !.best = df_best,
                                  !.files = (filename :> df_best),
                                  !.reported = "IndexError"]
             ELSE [sigFile EXCEPT !.pc = "optimised", !.best = df_best,
                                  !.files = (filename :> df_best)]

\* Evaluator(experiment, threshold='sigmoid', model_name=model_name) of the same
\* experiment and model name, up to the threshold
ConstructWithSigmoid ==
    /\ sigFile.pc = "optimised"
    /\ LET sigmoid_file == SigmoidFile(sigFile.model_name)
       IN  sigFile' =
             IF sigmoid_file \notin DOMAIN sigFile.files
             THEN [sigFile EXCEPT !.pc = "constructed",
                                  !.reported = "Could not find an optimised sigmoid"]
             ELSE IF sigFile.files[sigmoid_file] = <<>>
             THEN [sigFile EXCEPT !.pc = "constructed",
                                  !.reported = "problem reading sigmoid parameters"]
             ELSE [sigFile EXCEPT !.pc = "constructed", !.reported = "",
                                  !.threshold = [kind |-> "sigmoid",
                                                 params |-> sigFile.files[sigmoid_file][1]]]

NextParams ==
    ((\E suffix \in OptimiseSuffixes, sums \in GridSums : OptimiseSigmoid(suffix, sums))
        \/ ConstructWithSigmoid)
        /\ UNCHANGED <<storeVars, clusterVars, evalVars, csvFile, writers, mc, sal, roc, scen,
                       sg, suffixed, sampler, gds, ctor>>

SpecParams == InitParams /\ [][NextParams]_vars

\* C27: an Evaluator constructed with threshold='sigmoid' after optimise_sigmoid
\* of the same experiment and model name has persisted its selection finds
\* the file and holds as threshold one of the selected rows (ymin, ymax, k, m).
C27_SigmoidParamsRoundTrip ==
    (sigFile.pc = "constructed" /\ sigFile.best # <<>>) =>
        /\ sigFile.threshold.kind = "sigmoid"
        /\ \E i \in 1..Len(sigFile.best) : sigFile.threshold.params = sigFile.best[i]

(***************************************************************************)
(* Part 17: the subjects, cohort and dataset Evaluator.__init__ sets, for  *)
(* a constructor call whose threshold is accepted.  An attribute that was  *)
(* never assigned is absent from attrs.                                    *)
(***************************************************************************)

EvaluatorModes == {"test", "val", "train", "inference"}

\* experiment.get_train_val_test_ids()
TrainValTestIds == [train |-> <<"t1", "t2">>, val |-> <<"v1">>, test |-> <<"s1">>]

\* an argument left at None (with a value of the argument's kind that is
\* never read), and an argument that was passed
NoneOf(unread) == [none |-> TRUE, value |-> unread]
Some(v) == [none |-> FALSE, value |-> v]

\* the subject_ids argument
SubjectIdsArgs == {NoneOf(<<>>), Some(<<"n1">>), Some(<<"n1", "n2">>)}

\* the dataset argument, as the subject_ids and the cohort the dataset holds
DatasetArgs ==
    {NoneOf([subject_ids |-> <<>>, cohort |-> ""]),
     Some([subject_ids |-> <<"d1">>, cohort |-> "dataset_cohort"]),
     Some([subject_ids |-> <<"d1", "d2">>, cohort |-> "dataset_cohort"])}

CohortArgs == {NoneOf(""), Some("cohort")}

\* the assignment that is in the code: self.subject_id
SubjectIdsAttribute == "subject_id"

InitCtor ==
    /\ StoreIdle /\ ClusterIdle /\ EvalIdle
    /\ CsvIdle /\ McIdle /\ SalIdle /\ RocIdle /\ ScenIdle /\ SgIdle /\ SfxIdle
    /\ SamplerIdle /\ GdsIdle /\ SigFileIdle
    /\ ctor \in [pc : {"args"}, mode : EvaluatorModes, subject_ids : SubjectIdsArgs,
                 dataset : DatasetArgs, cohort : CohortArgs, attrs : {<<>>}, exc : {""}]

\* attrs with self.<name> = value
SetAttr(attrs, name, value) ==
    [a \in (DOMAIN attrs) \cup {name} |-> IF a = name THEN value ELSE attrs[a]]

\* Evaluator.__init__ from "update dataset, cohort and subjects" to its end
EvaluatorInit ==
    /\ ctor.pc = "args"
    /\ LET a1 == SetAttr(<<>>, "cohort",
                         IF ~ctor.cohort.none THEN ctor.cohort.value
                         ELSE "experiment_cohort")
           a2 == IF ~ctor.subject_ids.none
                 THEN SetAttr(a1, SubjectIdsAttribute, ctor.subject_ids.value)
                 ELSE IF ctor.mode \in {"train", "val", "test"}
                 THEN SetAttr(a1, "subject_ids", TrainValTestIds[ctor.mode])
                 ELSE a1
       IN  ctor' =
             IF ~ctor.dataset.none
             THEN [ctor EXCEPT
                     !.pc = "constructed",
                     !.attrs = SetAttr(SetAttr(SetAttr(a2, "dataset", ctor.dataset.value),
                                               "subject_ids", ctor.dataset.value.subject_ids),
                                       "cohort", ctor.dataset.value.cohort)]
             ELSE IF "subject_ids" \notin DOMAIN a2
             THEN \* GraphDataset(self.subject_ids, ...)
                  [ctor EXCEPT !.pc = "raised", !.attrs = a2, !.exc = "AttributeError"]
             ELSE [ctor EXCEPT
                     !.pc = "constructed",
                     !.attrs = SetAttr(a2, "dataset",
                                       [subject_ids |-> a2["subject_ids"],
                                        cohort |-> a2["cohort"]])]

NextCtor ==
    EvaluatorInit
        /\ UNCHANGED <<storeVars, clusterVars, evalVars, csvFile, writers, mc, sal, roc, scen,
                       sg, suffixed, sampler, gds, sigFile>>

SpecCtor == InitCtor /\ [][NextCtor]_vars

\* C28: construction ends with a subject list in every mode; with subject_ids
\* and no dataset, the list and the dataset's subjects are the ids passed;
\* with a dataset, list and cohort are the dataset's.
C28_SubjectListDefined ==
    ctor.pc \in {"constructed", "raised"} =>
        /\ ctor.pc = "constructed"
        /\ "subject_ids" \in DOMAIN ctor.attrs
        /\ (ctor.dataset.none /\ ~ctor.subject_ids.none) =>
              /\ ctor.attrs["subject_ids"] = ctor.subject_ids.value
              /\ ctor.attrs["dataset"].subject_ids = ctor.subject_ids.value
        /\ ~ctor.dataset.none =>
              /\ ctor.attrs["subject_ids"] = ctor.dataset.value.subject_ids
              /\ ctor.attrs["cohort"] = ctor.dataset.value.cohort

====
